---------------------------- MODULE Spec2Model ----------------------------
(***************************************************************************)
(* Model of the Are.na tarot page (src/script.js).  The file holds three   *)
(* variants of the page; this module models the two 3D variants:           *)
(*   "entry"   lines 1..857     (cards drop in with a staggered entry)      *)
(*   "shuffle" lines 965..2514  (cosmic shuffle, cards re-created on reset) *)
(*                                                                         *)
(* Time is counted in units of 50 ms, the greatest common divisor of every *)
(* delay and duration of the two variants.  A timer fires when its delay   *)
(* has run out; a frame runs every requestAnimationFrame callback that is  *)
(* registered, in registration order.  A Math.random() draw is resolved at *)
(* the step that first reads it.                                           *)
(***************************************************************************)
EXTENDS Integers, Sequences, FiniteSets, TLC

(* ------------------------------ bounds -------------------------------- *)

\* Asynchronous operations in flight at once (pending image loads, resets
\* under way, shuffle sequences under way).  The code has no such cap.
MaxAsync == 2

\* Cosmic shuffles under way at once.
MaxShuffles == 1

\* Placeholder cards of one cosmic shuffle (the code creates 60).
numShuffleCards == 5

\* Requests (clicks on a card, clicks on the reset button) that one run
\* accepts: of the entry variant, of the shuffle variant.
MaxRequests == 8
MaxShuffleRequests == 4

\* Math.random() returns a multiple of 1 / RandomLevels.
RandomLevels == 4

\* Requests and network answers arrive on a grid of InputPeriod time units
\* while an animation or a timer runs, and at any time when none does.
InputPeriod == 4

\* Failed attempts of init, and queries of one fetchRandomContent call.
\* The code caps neither.
MaxInitFailures == 3
MaxQueries == 3

\* How far the clock of the machine is set back at most while a tween
\* runs, in units of 50 ms.
ClockSkew == 2

(* ------------------------- program constants -------------------------- *)

MAX_REVEALED_CARDS == 3
numCards == 4
numCardsToKeep == 4

\* Delays and durations in units of 50 ms.
EntryDelay == 3
EntryDuration == 12
FlipDuration == 16
FlipBackDelay == 4
FlipBackDuration == 12
FlyDelay == 2
FlyMin == 10
FlyMax == 14
AppearDuration == 60
SelectDelay == 6
MoveDuration == 12
HighlightDelay == 20
LabelDuration == 20
ScaleDuration == 4
ScenarioDuration == 20
InitRetryDelay == 20

\* flyDuration = 500 + Math.random() * 200.  Up to the first frame at
\* which one of the durations has passed, the draws give the same frames:
\* a fly-away tween carries FlyMax and the draw is resolved at that frame.
FlyDurations == {FlyMin, FlyMax}

Variants == {"entry", "shuffle"}

\* What a content query can bring back: no block, a block without an
\* image, a block with an image, both.  url "" stands for a missing
\* image.display.url.
Block(id, url) == [id |-> id, url |-> url]
Responses ==
    { <<>>, <<Block(1, "")>>, <<Block(2, "u2")>>, <<Block(1, ""), Block(2, "u2")>> }

VARIABLES
    variant,             \* which page variant runs
    backTexture,         \* tarot.png: "loading", then "settled" (loaded or failed)
    isInitialAnimation,
    animating,
    revealedCardCount,
    cards,               \* content blocks of the last query
    cardMeshes,          \* the playable cards
    shuffleCards,        \* the placeholder cards; TRUE = still in the scene
    pending,             \* accepted flips that wait for content or texture
    tweens,              \* registered requestAnimationFrame callbacks
    timers,              \* armed setTimeout callbacks, by deadline
    resets,              \* resetTarotReading calls under way
    resetVisible,        \* the reset container has the class "visible"
    entryClock,          \* time since animateCardsEntry ran, -1 before
    inputPhase,          \* position of the clock on the input grid
    requests,            \* requests accepted so far
    selection,           \* one run of selectAndPlaceFourCards, step by step
    driver,              \* one tween and the clock it reads
    boot,                \* init: attempts, queries, scene and listeners
    pointer              \* the hovered card and the scale tweens it started

vars ==
    << variant, backTexture, isInitialAnimation, animating, revealedCardCount,
       cards, cardMeshes, shuffleCards, pending, tweens, timers, resets,
       resetVisible, entryClock, inputPhase, requests,
       selection, driver, boot, pointer >>

\* The state of the page proper, and the state that the specifications of
\* the selection, of the tween driver and of init look at.
pageVars ==
    << variant, backTexture, isInitialAnimation, animating, revealedCardCount,
       cards, cardMeshes, shuffleCards, pending, tweens, timers, resets,
       resetVisible, entryClock, inputPhase, requests >>

(* ------------------------- the program state -------------------------- *)

\* The mutable state as one record, so that a handler is a function from
\* state to state and handlers compose the way the calls do.  queue holds
\* the callbacks of the running frame that have not run yet.
St ==
    [ variant |-> variant, backTexture |-> backTexture,
      isInitialAnimation |-> isInitialAnimation, animating |-> animating,
      revealedCardCount |-> revealedCardCount, cards |-> cards,
      cardMeshes |-> cardMeshes, shuffleCards |-> shuffleCards,
      pending |-> pending, tweens |-> tweens, timers |-> timers,
      resets |-> resets, resetVisible |-> resetVisible, entryClock |-> entryClock, inputPhase |-> inputPhase,
      requests |-> requests, queue |-> <<>> ]

\* The step ends in state state.  With no tween and no timer left the
\* clock is of no account, and the input grid starts anew.
CommitPage(state) ==
    \E st \in {state} :
    /\ requests' = st.requests
    /\ variant' = st.variant
    /\ backTexture' = st.backTexture
    /\ isInitialAnimation' = st.isInitialAnimation
    /\ animating' = st.animating
    /\ revealedCardCount' = st.revealedCardCount
    /\ cards' = st.cards
    /\ cardMeshes' = st.cardMeshes
    /\ shuffleCards' = st.shuffleCards
    /\ pending' = st.pending
    /\ tweens' = st.tweens
    /\ timers' = st.timers
    /\ resets' = st.resets
    /\ resetVisible' = st.resetVisible
    /\ entryClock' = st.entryClock
    /\ inputPhase' = IF st.tweens = <<>> /\ st.timers = <<>> THEN 0 ELSE st.inputPhase

Commit(state) ==
    /\ CommitPage(state)
    /\ UNCHANGED << selection, driver, boot, pointer >>

Min(a, b) == IF a < b THEN a ELSE b

\* splice as it would be if it took nothing out of the array.
RemoveNone(s, k) == s

RemoveAt(s, k) == SubSeq(s, 1, k - 1) \o SubSeq(s, k + 1, Len(s))

(* ----------------------------- arithmetic ----------------------------- *)

\* The numbers of the animations are fractions: a Number is kept as a
\* reduced fraction num / den with den > 0, and the operators below are the
\* exact +, -, *, / and Math.pow of such numbers.
Abs(x) == IF x < 0 THEN -x ELSE x

RECURSIVE GCD(_, _)
GCD(a, b) == IF b = 0 THEN a ELSE GCD(b, a % b)

Rat(n, d) ==
    LET g == GCD(Abs(n), Abs(d))
        sign == IF d < 0 THEN -1 ELSE 1
    IN  [num |-> (sign * n) \div g, den |-> (sign * d) \div g]

Num(i) == [num |-> i, den |-> 1]

Plus(a, b) == Rat(a.num * b.den + b.num * a.den, a.den * b.den)

Minus(a, b) == Rat(a.num * b.den - b.num * a.den, a.den * b.den)

Times(a, b) == Rat(a.num * b.num, a.den * b.den)

Over(a, b) == Rat(a.num * b.den, a.den * b.num)

Less(a, b) == a.num * b.den < b.num * a.den

RECURSIVE Pow(_, _)
Pow(a, n) == IF n = 0 THEN Num(1) ELSE Times(a, Pow(a, n - 1))

\* Math.min(elapsed / duration, 1): the only clamp of the update closures.
Progress(elapsed, duration) ==
    LET q == Over(Num(elapsed), Num(duration))
    IN  IF Less(q, Num(1)) THEN q ELSE Num(1)

Half == Rat(1, 2)

\* The easing expressions of the update closures.
easeOutCubic(progress) == Minus(Num(1), Pow(Minus(Num(1), progress), 3))

easeOutQuad(progress) == Minus(Num(1), Pow(Minus(Num(1), progress), 2))

easeInOutQuadLow(progress) == Times(Num(2), Times(progress, progress))

easeInOutQuadHigh(progress) ==
    Minus(Num(1), Over(Pow(Plus(Times(Num(-2), progress), Num(2)), 2), Num(2)))

easeInOutQuad(progress) ==
    IF Less(progress, Half) THEN easeInOutQuadLow(progress)
    ELSE easeInOutQuadHigh(progress)

easeInOutCubicLow(progress) ==
    Times(Num(4), Times(progress, Times(progress, progress)))

\* The upper branch of the cubic easing as it would be with the divisor 4.
easeInOutCubicHighBy4(progress) ==
    Minus(Num(1), Over(Pow(Plus(Times(Num(-2), progress), Num(2)), 3), Num(4)))

easeInOutCubicHigh(progress) ==
    Minus(Num(1), Over(Pow(Plus(Times(Num(-2), progress), Num(2)), 3), Num(2)))

easeInOutCubic(progress) ==
    IF Less(progress, Half) THEN easeInOutCubicLow(progress)
    ELSE easeInOutCubicHigh(progress)

linear(progress) == progress

\* The interpolation as it would be if it left out the start value.
InterpolateFromZero(start, target, easedProgress) ==
    Times(Minus(target, start), easedProgress)

\* start + (target - start) * easedProgress
Interpolate(start, target, easedProgress) ==
    Plus(start, Times(Minus(target, start), easedProgress))

\* A tween: one self-rescheduling animation callback.  elapsed is
\* Date.now() - startTime, kept up to dur (progress = min(elapsed/dur, 1)).
\* offset is the time from the scheduling of the tween to its first call,
\* lag the value of elapsed at that first call.  card is an index of
\* cardMeshes (of shuffleCards for "flyshuffle"), 0 for an object that an
\* array no longer holds.
Tween(kind, card, elapsed, dur, offset, label, rid, n) ==
    [ kind |-> kind, card |-> card, elapsed |-> Min(elapsed, dur), dur |-> dur,
      offset |-> offset, lag |-> Min(elapsed, dur), label |-> label,
      rid |-> rid, n |-> n, startUp |-> FALSE ]

\* A timer: remaining runs down to 0, elapsed counts the time since
\* setTimeout was called.  startUp is startRotX /= PI of a flip-back.
Timer(kind, card, delay, rid, n) ==
    [ kind |-> kind, card |-> card, remaining |-> delay, elapsed |-> 0,
      rid |-> rid, n |-> n, startUp |-> FALSE ]

\* setTimeout: timers fire by deadline, and in the order of the calls when
\* the deadlines are equal.
setTimeout(st, t) ==
    LET ts == st.timers
        k == Cardinality({ j \in 1..Len(ts) : ts[j].remaining <= t.remaining })
    IN  [st EXCEPT !.timers = SubSeq(ts, 1, k) \o <<t>> \o SubSeq(ts, k + 1, Len(ts))]

requestAnimationFrame(st, tw) == [st EXCEPT !.tweens = Append(@, tw)]

Card ==
    [ revealed |-> FALSE, selected |-> FALSE, textLabel |-> "none",
      inScene |-> TRUE, flipStarts |-> 0, faceUp |-> FALSE ]

IdleReset == [stage |-> "idle", waiting |-> 0]

hasValidImage(content) == content.url /= ""


(* ------------------------- playable cards ----------------------------- *)

\* The n-th card is gone from its array: whatever still refers to it
\* (a closure of a load, a tween or a timer) keeps working on the object.
DetachCards(st) ==
    LET off(x) == IF x.kind \in {"entry", "flip", "flipback", "flyreset"}
                  THEN [x EXCEPT !.card = 0] ELSE x
    IN  [st EXCEPT
            !.cardMeshes = <<>>,
            !.pending = [k \in 1..Len(@) |-> [@[k] EXCEPT !.card = 0]],
            !.tweens = [k \in 1..Len(@) |-> off(@[k])],
            !.queue = [k \in 1..Len(@) |-> off(@[k])],
            !.timers = [k \in 1..Len(@) |-> off(@[k])]]

DetachShuffleCards(st) ==
    LET off(x) == IF x.kind = "flyshuffle" THEN [x EXCEPT !.card = 0] ELSE x
    IN  [st EXCEPT
            !.shuffleCards = <<>>,
            !.tweens = [k \in 1..Len(@) |-> off(@[k])],
            !.queue = [k \in 1..Len(@) |-> off(@[k])]]

\* animateCardsEntry: the busy flag is set and card i gets a timer of
\* i * 150 ms that starts its tween.
animateCardsEntry(st) ==
    LET arm[i \in 0..Len(st.cardMeshes)] ==
            IF i = 0 THEN [st EXCEPT !.animating = TRUE, !.entryClock = 0]
            ELSE setTimeout(arm[i - 1],
                            Timer("entry", i, (i - 1) * EntryDelay, 0, i - 1))
    IN  arm[Len(st.cardMeshes)]

\* createCards: four face-down cards are pushed to cardMeshes; the entry
\* variant then animates them in, the shuffle variant clears the busy flag.
createCards(st) ==
    LET made == [st EXCEPT !.cardMeshes = @ \o [i \in 1..numCards |-> Card]]
    IN  IF st.variant = "entry"
        THEN animateCardsEntry(made)
        ELSE [made EXCEPT !.animating = FALSE]

(* --------------------------- cosmic shuffle --------------------------- *)

\* animateCosmicShuffle: the busy flag is set and the appear tween starts.
animateCosmicShuffle(st) ==
    requestAnimationFrame([st EXCEPT !.animating = TRUE],
                          Tween("appear", 0, 0, AppearDuration, 0, "none", 0, 0))

\* createShuffleAnimation: the placeholders are pushed to shuffleCards and
\* added to the scene.
createShuffleAnimation(st) ==
    animateCosmicShuffle(
        [st EXCEPT !.shuffleCards = @ \o [i \in 1..numShuffleCards |-> TRUE]])

\* The selection loop of selectAndPlaceFourCards on a pool of poolLen
\* cards: draw i removes the card at index floor(random * length) of what
\* is left of the pool.  draws[i] / RandomLevels is the i-th random number.
SelectFour(poolLen, draws) ==
    LET step[i \in 0..numCardsToKeep] ==
            IF i = 0 THEN [kept |-> <<>>, removed |-> [k \in 1..poolLen |-> k]]
            ELSE CHOOSE next \in
                    { LET len == Len(prev.removed)
                          randomIndex == (draws[i] * len) \div RandomLevels
                      IN  IF len > 0
                          THEN [kept |-> Append(prev.kept,
                                                [card |-> prev.removed[randomIndex + 1],
                                                 positionIndex |-> i - 1]),
                                removed |-> RemoveAt(prev.removed, randomIndex + 1)]
                          ELSE prev :
                        prev \in {step[i - 1]} } : TRUE
    IN  step[numCardsToKeep]

\* moveSelectedCardsToPosition: the row of the kept cards.  Slot i of n
\* lies at x = i * (cardWidth + spacing) - totalWidth / 2 + cardWidth / 2,
\* y = 0, z = 0.
spacing == Rat(12, 10)

cardWidth == Num(2)

finalPositions(n) ==
    LET totalWidth == Minus(Times(Num(n), Plus(cardWidth, spacing)), spacing)
    IN  [i \in 1..n |->
            [x |-> Plus(Minus(Times(Num(i - 1), Plus(cardWidth, spacing)),
                              Over(totalWidth, Num(2))),
                        Over(cardWidth, Num(2))),
             y |-> Num(0)]]

\* selectedCards.sort((a, b) => a.userData.positionIndex - b.userData.positionIndex)
sortByPositionIndex(selectedCards) ==
    SortSeq(selectedCards, LAMBDA a, b : a.positionIndex < b.positionIndex)

\* arcHeight = 4 * Math.sin(progress * Math.PI), at the values of progress
\* at which the sine is a fraction.
arcHeight(progress) ==
    CASE progress = Num(0) -> Num(0)
      [] progress = Rat(1, 6) -> Num(2)
      [] progress = Rat(1, 2) -> Num(4)
      [] progress = Rat(5, 6) -> Num(2)
      [] progress = Num(1) -> Num(0)
      [] progress = Rat(-1, 6) -> Num(-2)

\* moveToPosition as it would be if the slots were counted from the right.
moveToPositionFromRight(card, startPos, positions, elapsed) ==
    LET progress == Progress(elapsed, MoveDuration)
        easedProgress == easeOutCubic(progress)
        finalPos == positions[Len(positions) - card.positionIndex]
    IN  [x |-> Interpolate(startPos.x, finalPos.x, easedProgress),
         y |-> Plus(Interpolate(startPos.y, finalPos.y, easedProgress),
                    arcHeight(progress))]

\* What one call of moveToPosition writes to card.position, elapsed after
\* the start of the move of a card that started at startPos.
moveToPosition(card, startPos, positions, elapsed) ==
    LET progress == Progress(elapsed, MoveDuration)
        easedProgress == easeOutCubic(progress)
        finalPos == positions[card.positionIndex + 1]
    IN  [x |-> Interpolate(startPos.x, finalPos.x, easedProgress),
         y |-> Plus(Interpolate(startPos.y, finalPos.y, easedProgress),
                    arcHeight(progress))]

\* selectAndPlaceFourCards: every card that was not drawn flies away, the
\* drawn ones move to the row; both start at once.
selectAndPlaceFourCards(st, draws) ==
    CHOOSE placed \in
        { LET fly[k \in 0..Len(sel.removed)] ==
                  IF k = 0 THEN st
                  ELSE requestAnimationFrame(fly[k - 1],
                           Tween("flyshuffle", sel.removed[k], 0, FlyMax, 0, "none", 0, 0))
              flown == fly[Len(sel.removed)]
          IN  IF Len(sel.kept) > 0
              THEN requestAnimationFrame(flown,
                       Tween("move", 0, 0, MoveDuration, 0, "none", 0, Len(sel.kept)))
              ELSE flown :
            sel \in {SelectFour(Len(st.shuffleCards), draws)} } : TRUE

\* The completion branch of moveToPosition, reached by the last of the n
\* callbacks of one moveSelectedCardsToPosition call.
moveCompleted(st) ==
    LET made == createCards(st)
    IN  [DetachShuffleCards(made) EXCEPT !.animating = FALSE]

(* ------------------------------- reset -------------------------------- *)

\* fetchRandomContent as it would be without its filter.
fetchRandomContentUnfiltered(st, blocks) ==
    [st EXCEPT !.cards = blocks]

\* The content query of fetchRandomContent came back with blocks: cards
\* is what passes the filter; an empty list makes the function query again.
fetchRandomContent(st, blocks) ==
    [st EXCEPT !.cards = SelectSeq(blocks, hasValidImage)]

\* Promise.all(flyAwayPromises).then of the shuffle variant.
flyAwayThen(st, r) ==
    [DetachCards(st) EXCEPT !.resets[r] = [stage |-> "fetch", waiting |-> 0]]

\* Promise.all(promises).then of resetTarotReading: the counter is reset;
\* the entry variant queries new content, the shuffle variant first sends
\* every card of cardMeshes away, card i after i * 100 ms.
flipBackThen(st, r) ==
    LET zero == [st EXCEPT !.revealedCardCount = 0, !.resetVisible = FALSE]
        n == Len(st.cardMeshes)
        arm[i \in 0..n] ==
            IF i = 0 THEN [zero EXCEPT !.resets[r] = [stage |-> "flyaway", waiting |-> n]]
            ELSE setTimeout(arm[i - 1],
                            Timer("flyreset", i, (i - 1) * FlyDelay, r, i - 1))
    IN  IF st.variant = "entry"
        THEN [zero EXCEPT !.resets[r] = [stage |-> "fetch", waiting |-> 0]]
        ELSE IF n = 0 THEN flyAwayThen(zero, r) ELSE arm[n]

\* resolve as it would be if the sequence went on at the first promise
\* that resolves instead of the last.
resolveFirst(st, r) ==
    IF st.resets[r].stage = "flipback" THEN flipBackThen(st, r)
    ELSE IF st.resets[r].stage = "flyaway" THEN flyAwayThen(st, r)
    ELSE st

\* resolve() of one promise of reset r.
resolve(st, r) ==
    LET left == st.resets[r].waiting - 1
        s1 == [st EXCEPT !.resets[r].waiting = left]
    IN  IF left > 0 THEN s1
        ELSE IF st.resets[r].stage = "flipback" THEN flipBackThen(s1, r)
        ELSE flyAwayThen(s1, r)

(* ------------------------------ tweens -------------------------------- *)

\* createLabelForCard: the card gets a text label mesh.
createLabelForCard(st, c, text) ==
    IF c = 0 THEN st ELSE [st EXCEPT !.cardMeshes[c].textLabel = text]

\* entryCompleted as it would be if every card cleared the busy flag.
entryCompletedAnyCard(st, tw) == [st EXCEPT !.animating = FALSE]

\* The completion branch (progress = 1) of each kind of tween.
entryCompleted(st, tw) ==
    IF tw.n = Len(st.cardMeshes) - 1 THEN [st EXCEPT !.animating = FALSE] ELSE st

\* The completion of a flip as it would be without animating = false.
flipCompletedStillBusy(st, tw) ==
    IF tw.label \in {"none", ""} THEN st
    ELSE createLabelForCard(st, tw.card, tw.label)

flipCompleted(st, tw) ==
    LET s1 == [st EXCEPT !.animating = FALSE]
    IN  IF tw.label \in {"none", ""} THEN s1
        ELSE createLabelForCard(s1, tw.card, tw.label)

flipBackCompleted(st, tw) ==
    LET s1 == IF tw.card = 0 THEN st
              ELSE [st EXCEPT !.cardMeshes[tw.card].revealed = FALSE,
                              !.cardMeshes[tw.card].selected = FALSE,
                              !.cardMeshes[tw.card].textLabel = "none"]
    IN  resolve(s1, tw.rid)

flyResetCompleted(st, tw) ==
    LET s1 == IF tw.card = 0 THEN st
              ELSE [st EXCEPT !.cardMeshes[tw.card].inScene = FALSE]
    IN  resolve(s1, tw.rid)

appearCompleted(st, tw) ==
    setTimeout(st, Timer("select", 0, SelectDelay, 0, 0))

flyShuffleCompleted(st, tw) ==
    IF tw.card = 0 THEN st ELSE [st EXCEPT !.shuffleCards[tw.card] = FALSE]

tweenCompleted(st, tw) ==
    CASE tw.kind = "entry" -> entryCompleted(st, tw)
      [] tw.kind = "flip" -> flipCompleted(st, tw)
      [] tw.kind = "flipback" -> flipBackCompleted(st, tw)
      [] tw.kind = "flyreset" -> flyResetCompleted(st, tw)
      [] tw.kind = "appear" -> appearCompleted(st, tw)
      [] tw.kind = "flyshuffle" -> flyShuffleCompleted(st, tw)
      [] tw.kind = "move" -> moveCompleted(st)

\* The write of rotation.x by a flip (towards 0, from where the card was)
\* and by a flip-back (towards PI, from startRotX): faceUp is
\* rotation.x /= PI.
writeRotation(st, tw) ==
    IF tw.card = 0 THEN st
    ELSE IF tw.kind = "flip"
    THEN [st EXCEPT !.cardMeshes[tw.card].faceUp = @ \/ tw.elapsed > 0]
    ELSE IF tw.kind = "flipback"
    THEN [st EXCEPT !.cardMeshes[tw.card].faceUp = tw.startUp /\ tw.elapsed < tw.dur]
    ELSE st

\* One call of a tween's update function: progress < 1 asks for another
\* frame, progress = 1 runs the completion branch.
updateTween(st, tw) ==
    IF tw.elapsed < tw.dur
    THEN requestAnimationFrame(writeRotation(st, tw), tw)
    ELSE tweenCompleted(writeRotation(st, tw), tw)

\* A frame: the callbacks registered before the frame run in order; what
\* they register runs in the next frame.
RECURSIVE runFrame(_)
runFrame(state) ==
    CHOOSE done \in
        { IF st.queue = <<>> THEN st
          ELSE runFrame(updateTween([st EXCEPT !.queue = Tail(@)], Head(st.queue))) :
            st \in {state} } : TRUE

\* Time passes by d units.
Advance(st, d) ==
    [st EXCEPT
        !.tweens = [k \in 1..Len(@) |-> [@[k] EXCEPT !.elapsed = Min(@ + d, st.tweens[k].dur)]],
        !.timers = [k \in 1..Len(@) |-> [@[k] EXCEPT !.remaining = @ - d, !.elapsed = @ + d]],
        !.entryClock = IF @ < 0 THEN @
                       ELSE Min(@ + d, (numCards - 1) * EntryDelay + EntryDuration)]

(* ------------------------------- flips -------------------------------- *)

\* animateCardFlip: the busy flag is set and the flip tween starts.
animateCardFlip(st, c, label) ==
    LET s1 == [st EXCEPT !.animating = TRUE]
        s2 == IF c = 0 THEN s1
              ELSE [s1 EXCEPT !.cardMeshes[c].flipStarts = Min(@ + 1, 2)]
    IN  updateTween(s2, Tween("flip", c, 0, FlipDuration, 0, label, 0, 0))

LabelFor(count) ==
    CASE count = 1 -> "Past"
      [] count = 2 -> "Present"
      [] count = 3 -> "Future"
      [] OTHER -> ""

\* highlightResetButton: the reset container becomes visible.
highlightResetButton(st) == [st EXCEPT !.resetVisible = TRUE]

\* The rollback as it would be if it left the counter alone.
rollbackFlagsOnly(st, c) ==
    IF c = 0 THEN st
    ELSE [st EXCEPT !.cardMeshes[c].revealed = FALSE,
                    !.cardMeshes[c].selected = FALSE]

\* The rollback of a flip whose content or texture did not arrive.
rollback(st, c) ==
    LET s1 == IF c = 0 THEN st
              ELSE [st EXCEPT !.cardMeshes[c].revealed = FALSE,
                              !.cardMeshes[c].selected = FALSE]
    IN  [s1 EXCEPT !.revealedCardCount = @ - 1]

\* The check of userData.revealed as it would be if it let every card pass.
alreadyRevealedNever(st, c) == FALSE

\* if (cardGroup.userData.revealed) return: a card is flipped once.
alreadyRevealed(st, c) == st.cardMeshes[c].revealed

\* flipCard as it would be without its first line, if (animating) return.
flipCardNoBusyGuard(st, c) ==
    IF c \notin 1..Len(st.cardMeshes) THEN st
    ELSE IF alreadyRevealed(st, c) THEN st
    ELSE IF st.revealedCardCount >= MAX_REVEALED_CARDS THEN highlightResetButton(st)
    ELSE [st EXCEPT !.cardMeshes[c].selected = TRUE,
                    !.cardMeshes[c].revealed = TRUE,
                    !.revealedCardCount = @ + 1,
                    !.pending = Append(@, [card |-> c,
                                           label |-> LabelFor(st.revealedCardCount + 1),
                                           stage |-> "texture"])]

\* flipCard, up to the start of the asynchronous load.
flipCard(st, c) ==
    IF st.animating THEN st
    ELSE IF c \notin 1..Len(st.cardMeshes) THEN st
    ELSE IF alreadyRevealed(st, c) THEN st
    ELSE IF st.revealedCardCount >= MAX_REVEALED_CARDS THEN highlightResetButton(st)
    ELSE
        LET marked == [st EXCEPT !.cardMeshes[c].selected = TRUE,
                                 !.cardMeshes[c].revealed = TRUE,
                                 !.revealedCardCount = @ + 1]
            label == LabelFor(marked.revealedCardCount)
            load(stage) == [marked EXCEPT !.pending =
                                Append(@, [card |-> c, label |-> label, stage |-> stage])]
        IN  IF st.variant = "entry"
            THEN IF st.cards /= <<>> THEN load("texture") ELSE rollback(marked, c)
            ELSE IF st.cards /= <<>> THEN load("texture") ELSE load("content")

\* The click handler of the canvas; hit is the card under the pointer,
\* 0 when the ray meets no card.
clickHandler(st, hit) ==
    IF st.animating THEN st
    ELSE IF hit = 0 THEN st
    ELSE flipCard(st, hit)

\* One press and release on the canvas: the mouseup listener calls
\* clickHandler when the gesture is a click, and the click listener calls
\* it with the same event position.
physicalClick(st, hit, isClick) ==
    clickHandler(IF isClick THEN clickHandler(st, hit) ELSE st, hit)

\* loadCardTexture(...).then of flipCard: the flip starts, and with three
\* cards counted the reset button is highlighted a second later.
textureLoaded(st, k) ==
    LET p == st.pending[k]
        s1 == [st EXCEPT !.pending = RemoveAt(@, k)]
        s2 == animateCardFlip(s1, p.card, p.label)
    IN  IF s2.revealedCardCount >= MAX_REVEALED_CARDS
        THEN setTimeout(s2, Timer("highlight", 0, HighlightDelay, 0, 0))
        ELSE s2

\* loadCardTexture(...).catch of flipCard.
textureFailed(st, k) ==
    rollback([st EXCEPT !.pending = RemoveAt(@, k)], st.pending[k].card)

\* fetchSingleCardContent as it would be if it went on with whatever its
\* first query brought.
contentFetchedOnce(st, k, blocks) ==
    [st EXCEPT !.cards = SelectSeq(blocks, hasValidImage),
               !.pending[k].stage = "texture"]

\* fetchSingleCardContent got blocks from the network: an empty filtered
\* list makes it query again, otherwise the texture load starts.
contentFetched(st, k, blocks) ==
    LET s1 == [st EXCEPT !.cards = SelectSeq(blocks, hasValidImage)]
    IN  IF s1.cards = <<>> THEN s1
        ELSE [s1 EXCEPT !.pending[k].stage = "texture"]

\* fetchSingleCardContent(...).catch of flipCard.
contentFailed(st, k) ==
    rollback([st EXCEPT !.pending = RemoveAt(@, k)], st.pending[k].card)

(* ------------------------------- reset -------------------------------- *)

\* resetTarotReading, up to the first asynchronous step: every revealed
\* card gets a flip-back promise whose tween is started by a timer of
\* index * 200 ms; startTime is taken when the promise is created.
resetTarotReading(st) ==
    IF st.animating THEN st
    ELSE
        LET r == CHOOSE x \in DOMAIN st.resets :
                    /\ st.resets[x].stage = "idle"
                    /\ \A y \in DOMAIN st.resets : st.resets[y].stage = "idle" => x <= y
            n == Len(st.cardMeshes)
            shown == { i \in 1..n : st.cardMeshes[i].revealed }
            arm[i \in 0..n] ==
                IF i = 0
                THEN [st EXCEPT !.animating = TRUE,
                                !.cardMeshes = [c \in 1..n |-> [@[c] EXCEPT !.flipStarts = 0]],
                                !.resets[r] = [stage |-> "flipback",
                                               waiting |-> Cardinality(shown)]]
                ELSE IF i \in shown
                THEN setTimeout(arm[i - 1],
                                [Timer("flipback", i, (i - 1) * FlipBackDelay, r, i - 1)
                                    EXCEPT !.startUp = st.cardMeshes[i].faceUp])
                ELSE arm[i - 1]
        IN  IF shown = {} THEN flipBackThen(arm[0], r) ELSE arm[n]

\* A reading ends with the reset: flipStarts counts the flips of a card
\* within one reading.
NewReading(st) ==
    [st EXCEPT !.cardMeshes = [c \in 1..Len(@) |-> [@[c] EXCEPT !.flipStarts = 0]]]

\* fetchRandomContent(...).then of resetTarotReading.
resetFetched(st, r, showShuffleAgain) ==
    LET s1 == NewReading([st EXCEPT !.resets[r] = IdleReset])
        s2 == IF st.variant = "entry" THEN s1
              ELSE IF showShuffleAgain
              THEN createShuffleAnimation([s1 EXCEPT !.isInitialAnimation = TRUE])
              ELSE createCards([s1 EXCEPT !.isInitialAnimation = FALSE])
    IN  [s2 EXCEPT !.animating = FALSE]

\* The catch as it would be without animating = false.
resetFetchFailedStillBusy(st, r) ==
    LET s1 == NewReading([st EXCEPT !.resets[r] = IdleReset])
    IN  IF st.variant = "entry" THEN s1
        ELSE [createCards([s1 EXCEPT !.isInitialAnimation = FALSE])
                EXCEPT !.animating = st.animating]

\* fetchRandomContent(...).catch of resetTarotReading.
resetFetchFailed(st, r) ==
    LET s1 == NewReading([st EXCEPT !.resets[r] = IdleReset])
        s2 == IF st.variant = "entry" THEN s1
              ELSE createCards([s1 EXCEPT !.isInitialAnimation = FALSE])
    IN  [s2 EXCEPT !.animating = FALSE]

\* The texture loader's callbacks of initThreeJS.
backTextureLoaded(st) ==
    LET s1 == [st EXCEPT !.backTexture = "settled"]
    IN  IF st.variant = "shuffle" /\ st.isInitialAnimation
        THEN createShuffleAnimation(s1)
        ELSE createCards(s1)

backTextureFailed(st) == createCards([st EXCEPT !.backTexture = "settled"])

(* ------------------------------ actions -------------------------------- *)

\* The state once init has run: the listeners are registered and tarot.png
\* is being loaded.  The entry variant has fetched its content before, the
\* shuffle variant fetches none.
NoSelection == [stage |-> "none"]

NoDriver == [stage |-> "none"]

Booted == [stage |-> "ready"]

NoPointer == [stage |-> "none"]

\* The globals of variant v as the script sets them, with content c.
PageAt(v, c) ==
    /\ variant = v
    /\ backTexture = "loading"
    /\ isInitialAnimation = TRUE
    /\ animating = FALSE
    /\ revealedCardCount = 0
    /\ cards = c
    /\ cardMeshes = <<>>
    /\ shuffleCards = <<>>
    /\ pending = <<>>
    /\ tweens = <<>>
    /\ timers = <<>>
    /\ resets = [r \in 1..MaxAsync |-> IdleReset]
    /\ resetVisible = FALSE
    /\ entryClock = -1
    /\ inputPhase = 0
    /\ requests = 0

Init ==
    /\ \E v \in Variants :
            PageAt(v, IF v = "entry" THEN <<Block(2, "u2")>> ELSE <<>>)
    /\ selection = NoSelection
    /\ driver = NoDriver
    /\ boot = Booted
    /\ pointer = NoPointer

\* Cosmic shuffles under way.
ShuffleCount ==
    Cardinality({ k \in 1..Len(tweens) : tweens[k].kind \in {"appear", "move"} })
    + Cardinality({ k \in 1..Len(timers) : timers[k].kind = "select" })

\* Loads, resets and shuffles under way.
AsyncCount ==
    Len(pending)
    + Cardinality({ r \in DOMAIN resets : resets[r].stage /= "idle" })
    + ShuffleCount

\* An input may arrive now.
InputSlot == inputPhase = 0

\* A request that the handlers act upon is counted.
Accept(st) == IF st = St THEN st ELSE [st EXCEPT !.requests = @ + 1]

RequestBound == IF variant = "entry" THEN MaxRequests ELSE MaxShuffleRequests

\* A request may be made now: a busy page rejects it, an idle page has
\* room for what it starts.
RequestSlot ==
    /\ InputSlot
    /\ animating \/ (AsyncCount < MaxAsync /\ requests < RequestBound)

BackTextureLoad ==
    /\ InputSlot
    /\ backTexture = "loading"
    /\ (variant = "shuffle" /\ isInitialAnimation) => ShuffleCount < MaxShuffles
    /\ Commit(backTextureLoaded(St))

BackTextureError ==
    /\ InputSlot
    /\ backTexture = "loading"
    /\ Commit(backTextureFailed(St))

\* The cards differ by their index only, which sets their delays.  The
\* pointer aims at no card (0), at the first face-down card or at the first
\* face-up card.
ClickTargets ==
    {0} \cup { i \in 1..Len(cardMeshes) :
                \A j \in 1..(i - 1) : cardMeshes[j].revealed /= cardMeshes[i].revealed }

\* A click on the canvas (mouseup or click listener).
Click(hit) ==
    /\ RequestSlot
    /\ Commit(Accept(clickHandler(St, hit)))

\* A click on the reset button, which takes clicks while its container
\* is visible.
ResetClick ==
    /\ RequestSlot
    /\ resetVisible
    /\ Commit(Accept(resetTarotReading(St)))

TextureLoad(k) ==
    /\ InputSlot
    /\ pending[k].stage = "texture"
    /\ Commit(textureLoaded(St, k))

TextureError(k) ==
    /\ InputSlot
    /\ pending[k].stage = "texture"
    /\ Commit(textureFailed(St, k))

ContentResponse(k, blocks) ==
    /\ InputSlot
    /\ pending[k].stage = "content"
    /\ Commit(contentFetched(St, k, blocks))

ContentError(k) ==
    /\ InputSlot
    /\ pending[k].stage = "content"
    /\ Commit(contentFailed(St, k))

\* The content query of a reset came back.
ResetContent(r, blocks, again) ==
    /\ InputSlot
    /\ resets[r].stage = "fetch"
    /\ again => ShuffleCount < MaxShuffles
    /\ LET s1 == fetchRandomContent(St, blocks)
       IN  Commit(IF s1.cards = <<>> THEN s1 ELSE resetFetched(s1, r, again))

ResetContentError(r) ==
    /\ InputSlot
    /\ resets[r].stage = "fetch"
    /\ Commit(resetFetchFailed(St, r))

\* The timer whose delay has run out first fires.
Due(kind) ==
    /\ timers /= <<>>
    /\ timers[1].remaining = 0
    /\ timers[1].kind = kind

Fired == [St EXCEPT !.timers = Tail(@)]

FireEntryTimer ==
    /\ Due("entry")
    /\ LET t == timers[1]
       IN  Commit(updateTween(Fired,
                    Tween("entry", t.card, 0, EntryDuration, t.elapsed, "none", 0, t.n)))

FireFlipBackTimer ==
    /\ Due("flipback")
    /\ LET t == timers[1]
       IN  Commit(updateTween(Fired,
                    [Tween("flipback", t.card, t.elapsed, FlipBackDuration, t.elapsed,
                           "none", t.rid, t.n) EXCEPT !.startUp = t.startUp]))

FireFlyTimer(dur) ==
    /\ Due("flyreset")
    /\ LET t == timers[1]
       IN  /\ dur <= t.elapsed \/ dur = FlyMax
           /\ Commit(updateTween(Fired,
                    Tween("flyreset", t.card, t.elapsed, dur, t.elapsed, "none", t.rid, t.n)))

FireHighlightTimer ==
    /\ Due("highlight")
    /\ Commit(highlightResetButton(Fired))

FireSelectTimer(draws) ==
    /\ Due("select")
    /\ Commit(selectAndPlaceFourCards(Fired, draws))

\* The time to the next instant at which something can happen: a timer
\* runs out, a tween reaches progress 1, or an input may arrive.  The
\* frames before that instant only move objects.
SetMin(S) == CHOOSE x \in S : \A y \in S : x <= y

\* The fly-away tweens whose duration is not resolved yet.
Flying == { k \in 1..Len(tweens) :
              /\ tweens[k].kind \in {"flyreset", "flyshuffle"}
              /\ tweens[k].dur = FlyMax }

NextInstant ==
    SetMin({ InputPeriod - inputPhase }
           \cup { timers[k].remaining : k \in 1..Len(timers) }
           \cup { tweens[k].dur - tweens[k].elapsed : k \in 1..Len(tweens) }
           \cup UNION { { d - tweens[k].elapsed :
                             d \in { x \in FlyDurations : x > tweens[k].elapsed } } :
                         k \in Flying })

\* The fly-away tweens that reach a duration that may have been drawn.
Landing == { k \in Flying : tweens[k].elapsed + NextInstant \in FlyDurations }

\* Time passes to the next instant and a frame runs.
Tick(short) ==
    /\ tweens /= <<>> \/ timers /= <<>>
    /\ \A k \in 1..Len(timers) : timers[k].remaining > 0
    /\ LET s0 == [St EXCEPT !.tweens = [k \in 1..Len(@) |->
                        IF k \in short
                        THEN [@[k] EXCEPT !.dur = tweens[k].elapsed + NextInstant]
                        ELSE @[k]]]
           s1 == Advance(s0, NextInstant)
           s2 == runFrame([s1 EXCEPT !.queue = s1.tweens, !.tweens = <<>>])
       IN  Commit([s2 EXCEPT !.inputPhase = (@ + NextInstant) % InputPeriod])

Next ==
    \/ BackTextureLoad
    \/ BackTextureError
    \/ \E hit \in ClickTargets : Click(hit)
    \/ ResetClick
    \/ \E k \in 1..Len(pending) : TextureLoad(k)
    \/ \E k \in 1..Len(pending) : TextureError(k)
    \/ \E k \in 1..Len(pending), blocks \in Responses : ContentResponse(k, blocks)
    \/ \E k \in 1..Len(pending) : ContentError(k)
    \/ \E r \in DOMAIN resets, blocks \in Responses,
          again \in (IF variant = "shuffle" THEN BOOLEAN ELSE {FALSE}) :
            ResetContent(r, blocks, again)
    \/ \E r \in DOMAIN resets : ResetContentError(r)
    \/ FireEntryTimer
    \/ FireFlipBackTimer
    \/ \E dur \in FlyDurations : FireFlyTimer(dur)
    \/ FireHighlightTimer
    \/ \E draws \in [1..numCardsToKeep -> 0..(RandomLevels - 1)] :
            FireSelectTimer(draws)
    \/ \E short \in SUBSET Landing : Tick(short)

Spec == Init /\ [][Next]_vars

\* What happens without the user: a registered frame callback is called,
\* a timer whose delay has run out fires, a texture load ends in its load
\* or its error callback, a content fetch in its then or its catch.
Scheduled ==
    \/ \E short \in SUBSET Landing : Tick(short)
    \/ FireEntryTimer
    \/ FireFlipBackTimer
    \/ \E dur \in FlyDurations : FireFlyTimer(dur)
    \/ FireHighlightTimer
    \/ \E draws \in [1..numCardsToKeep -> 0..(RandomLevels - 1)] :
            FireSelectTimer(draws)
    \/ \E k \in 1..Len(pending) : TextureLoad(k) \/ TextureError(k)
    \/ \E k \in 1..Len(pending) :
            ContentResponse(k, << Block(2, "u2") >>) \/ ContentError(k)
    \/ \E r \in DOMAIN resets :
            ResetContent(r, << Block(2, "u2") >>, FALSE) \/ ResetContentError(r)

\* The browser and the network do not stop: while one of these steps can
\* be taken, one is taken.
FairSpec == Spec /\ WF_vars(Scheduled)

(* ------------------------------- init --------------------------------- *)

\* The three scripts of the file: the two 3D variants and the DOM variant
\* (lines 858..964), whose init only fetches and registers listeners.
Scripts == {"entry", "dom", "shuffle"}

\* What a query can end in besides an array of blocks: a body without a
\* blocks array (throw at lines 67-69), a fetch or json() that rejects.
FetchErrors == {"invalid", "error"}

\* init as it would be if it set up the scene before it fetched.
runInitSceneFirst(b) ==
    IF b.script = "shuffle"
    THEN [b EXCEPT !.stage = "queries"]
    ELSE [b EXCEPT !.stage = "fetching", !.queries = 1,
                   !.scenes = @ + (IF b.script = "dom" THEN 0 ELSE 1)]

\* init up to its await: the entry and the DOM variant wait for
\* fetchRandomContent, the shuffle variant for loadQueriesFromJson.
runInit(b) ==
    IF b.script = "shuffle"
    THEN [b EXCEPT !.stage = "queries"]
    ELSE [b EXCEPT !.stage = "fetching", !.queries = 1]

\* init after its await: initThreeJS (not in the DOM variant) and
\* setupEventListeners.
initThen(b) ==
    [b EXCEPT !.stage = "ready",
              !.scenes = @ + (IF b.script = "dom" THEN 0 ELSE 1),
              !.listeners = @ + 1]

\* The catch of init: setTimeout(init, 1000).
initCatch(b, error) ==
    [b EXCEPT !.stage = "backoff", !.failures = @ + 1, !.waited = 0,
              !.lastAnswer = error]

\* What the request for data.json can end in: a fetch that rejects, a
\* response that is not OK, a body that is no JSON, the JSON value null,
\* or an object whose values are the lists of values.
File(kind, values) == [kind |-> kind, values |-> values]

NoFile == File("none", <<>>)

DataFiles ==
    { File("unreachable", <<>>), File("not ok", <<>>), File("no json", <<>>),
      File("null", <<>>) }
    \cup { File("object", v) :
              v \in { <<>>, << <<>> >>, << <<>>, <<>> >>, << <<"tarot">> >>,
                      << <<"tarot", "moon">>, <<>>, <<"sun">> >> } }

\* Object.values(data).flat()
RECURSIVE flat(_)
flat(values) == IF values = <<>> THEN <<>> ELSE Head(values) \o flat(Tail(values))

defaultQueries == << "art", "design", "photography", "architecture", "nature" >>

\* loadQueriesFromJson as it would be without its check of queries.length.
loadQueriesFromJsonUnchecked(file) ==
    IF file.kind /= "object"
    THEN [queries |-> defaultQueries, returned |-> "false", settled |-> "resolved"]
    ELSE [queries |-> flat(file.values), returned |-> "true", settled |-> "resolved"]

\* loadQueriesFromJson: every throw of the try block, Object.values(null)
\* included, ends in the catch, which installs the default queries.
loadQueriesFromJson(file) ==
    IF file.kind /= "object" \/ flat(file.values) = <<>>
    THEN [queries |-> defaultQueries, returned |-> "false", settled |-> "resolved"]
    ELSE [queries |-> flat(file.values), returned |-> "true", settled |-> "resolved"]

\* getRandomQuery; draw / RandomLevels is the random number.
getRandomQuery(queries, draw) ==
    IF Len(queries) = 0 THEN "art"
    ELSE queries[(draw * Len(queries)) \div RandomLevels + 1]

\* The .card elements of the page of the DOM variant.
DomCards == 2

\* What a query of the boot can bring back: besides Responses, two
\* blocks with an image.
DeckResponses == Responses \cup { << Block(2, "u2"), Block(3, "u3") >> }

\* innerHTML of a .reading-content: <img src="url" alt="Tarot card">, or
\* what the page came with.
Img(url) == [src |-> url]

NoImage == Img("none")

\* .map(position: Math.random()).sort(by position) of fetchRandomContent;
\* positions[k] / RandomLevels is the position of block k, and the sort
\* is stable.
RECURSIVE sortByPosition(_, _)
sortByPosition(blocks, positions) ==
    IF blocks = <<>> THEN <<>>
    ELSE LET least == CHOOSE k \in 1..Len(blocks) :
                          \A j \in 1..Len(blocks) :
                              \/ positions[k] < positions[j]
                              \/ positions[k] = positions[j] /\ k <= j
         IN  << blocks[least] >>
             \o sortByPosition(RemoveAt(blocks, least), RemoveAt(positions, least))

\* The positions that two blocks can draw.
PositionDraws == { << 0, 1 >>, << 1, 0 >>, << 1, 1 >> }

\* The click listener of a card as it would be if it wrote the content
\* on every click.
cardClickedEveryClick(b, deck, card, draw) ==
    LET toggled == IF card \in b.flipped THEN b.flipped \ {card}
                   ELSE b.flipped \cup {card}
        b1 == [b EXCEPT !.flipped = toggled]
    IN  IF Len(deck) = 0 THEN b1
        ELSE LET randomCard == deck[(draw * Len(deck)) \div RandomLevels + 1]
             IN  IF hasValidImage(randomCard)
                 THEN [b1 EXCEPT !.content[card] = Img(randomCard.url)]
                 ELSE [b1 EXCEPT !.waiting = Append(@, card), !.queries = @ + 1]

\* The click listener of a card of the DOM variant, up to its await:
\* classList.toggle('flipped'), and on a card that is now flipped the
\* image of a random block of cards; a block without an image makes the
\* listener wait for fetchRandomContent.
cardClicked(b, deck, card, draw) ==
    LET toggled == IF card \in b.flipped THEN b.flipped \ {card}
                   ELSE b.flipped \cup {card}
        b1 == [b EXCEPT !.flipped = toggled]
    IN  IF card \notin toggled \/ Len(deck) = 0 THEN b1
        ELSE LET randomCard == deck[(draw * Len(deck)) \div RandomLevels + 1]
             IN  IF hasValidImage(randomCard)
                 THEN [b1 EXCEPT !.content[card] = Img(randomCard.url)]
                 ELSE [b1 EXCEPT !.waiting = Append(@, card), !.queries = @ + 1]

\* The click listener after its await (lines 949-955): the first
\* listener that waits writes the image of a block of the new cards.
cardClickedThen(b, deck, draw) ==
    IF b.waiting = <<>> THEN b
    ELSE LET b1 == [b EXCEPT !.waiting = Tail(@)]
         IN  IF Len(deck) = 0 THEN b1
             ELSE LET newRandomCard == deck[(draw * Len(deck)) \div RandomLevels + 1]
                  IN  IF hasValidImage(newRandomCard)
                      THEN [b1 EXCEPT !.content[Head(b.waiting)] = Img(newRandomCard.url)]
                      ELSE b1

\* What fetchSingleCardContent has returned before it has returned.
NoBlock == Block(0, "")

\* The script has been read; DOMContentLoaded has not fired yet.
BootInit ==
    /\ \E script \in Scripts :
            /\ PageAt(IF script = "shuffle" THEN "shuffle" ELSE "entry", <<>>)
            /\ boot = [stage |-> "loaded", script |-> script, failures |-> 0,
                       queries |-> 0, scenes |-> 0, listeners |-> 0, waited |-> 0,
                       lastAnswer |-> "none", resolved |-> FALSE,
                       answer |-> <<>>, settled |-> "no",
                       dataJson |-> NoFile, queryList |-> <<>>,
                       loaded |-> "pending", query |-> "none",
                       flipped |-> {}, content |-> [c \in 1..DomCards |-> NoImage],
                       waiting |-> <<>>,
                       cardsAtCall |-> <<>>, returned |-> NoBlock]
    /\ selection = NoSelection
    /\ driver = NoDriver
    /\ pointer = NoPointer

BootStep(b, c) ==
    /\ boot' = b
    /\ cards' = c
    /\ revealedCardCount' = IF b.stage = "ready" /\ b.script /= "dom" THEN 0
                            ELSE revealedCardCount
    /\ resetVisible' = IF b.stage = "ready" /\ b.script /= "dom" THEN FALSE
                       ELSE resetVisible
    /\ UNCHANGED << variant, backTexture, isInitialAnimation, animating, cardMeshes,
                    shuffleCards, pending, tweens, timers, resets, entryClock,
                    inputPhase, requests, selection, driver, pointer >>

DOMContentLoaded ==
    /\ boot.stage = "loaded"
    /\ BootStep(runInit(boot), cards)

\* A query of fetchRandomContent comes back with blocks: an empty filtered
\* list makes it query again, otherwise it resolves and init goes on.
FetchAnswer(blocks, positions, draw) ==
    /\ IF boot.stage = "fetching" THEN TRUE ELSE boot.waiting /= <<>>
    /\ LET s1 == fetchRandomContent(St, blocks)
           deck == sortByPosition(s1.cards, positions)
       IN  IF deck = <<>>
           THEN /\ boot.queries < MaxQueries
                /\ BootStep([boot EXCEPT !.queries = @ + 1, !.lastAnswer = "empty",
                                         !.answer = blocks],
                            deck)
           ELSE IF boot.stage = "fetching"
           THEN BootStep(initThen([boot EXCEPT !.lastAnswer = "content",
                                               !.resolved = TRUE,
                                               !.answer = blocks]),
                         deck)
           ELSE BootStep(cardClickedThen(boot, deck, draw), deck)

\* A query of fetchRandomContent throws: init catches and arms its timer.
FetchThrows(error) ==
    /\ IF boot.stage = "fetching" THEN TRUE ELSE boot.waiting /= <<>>
    /\ boot.failures < MaxInitFailures
    /\ IF boot.stage = "fetching"
       THEN BootStep(initCatch(boot, error), cards)
       ELSE BootStep([boot EXCEPT !.waiting = Tail(@)], cards)

\* 50 ms pass while the timer of init runs.
BootWait ==
    /\ boot.stage = "backoff"
    /\ boot.waited < InitRetryDelay
    /\ BootStep([boot EXCEPT !.waited = @ + 1], cards)

\* The timer of init fires.
BootRetry ==
    /\ boot.stage = "backoff"
    /\ boot.waited = InitRetryDelay
    /\ BootStep(runInit(boot), cards)

\* A click on a card of the DOM variant, once init has registered the
\* listeners.
DomClick(card, draw) ==
    /\ boot.script = "dom"
    /\ boot.listeners > 0
    /\ BootStep(cardClicked(boot, cards, card, draw), cards)

\* loadQueriesFromJson returns, with the queries of data.json or with its
\* fallback list: it never throws.
QueriesLoaded(file) ==
    /\ boot.stage = "queries"
    /\ LET got == loadQueriesFromJson(file)
       IN  BootStep(initThen([boot EXCEPT !.dataJson = file,
                                          !.queryList = got.queries,
                                          !.loaded = got.returned]),
                    cards)

\* The flip that waits for fetchSingleCardContent, as flipCard leaves it.
SingleFlip == [card |-> 0, label |-> LabelFor(1), stage |-> "content"]

\* cards[Math.floor(Math.random() * cards.length)]; on an empty list
\* JavaScript gives undefined, which NoBlock stands for.
blockAt(deck, draw) ==
    IF Len(deck) = 0 THEN NoBlock
    ELSE deck[(draw * Len(deck)) \div RandomLevels + 1]

\* fetchSingleCardContent as it would be without its look at cards.
fetchSingleCardContentAlwaysQueries(b, deck, draw) ==
    [boot |-> [b EXCEPT !.stage = "single", !.queries = 1, !.settled = "no",
                        !.lastAnswer = "none", !.cardsAtCall = deck,
                        !.returned = NoBlock,
                        !.query = getRandomQuery(b.queryList, draw)],
     cards |-> deck]

\* fetchSingleCardContent, up to its await: a block of a non-empty cards
\* is returned at once, at index floor(random * length); on an empty
\* cards a query goes out.  queries counts the queries of this call.
fetchSingleCardContent(b, deck, draw) ==
    IF Len(deck) > 0
    THEN [boot |-> [b EXCEPT !.stage = "single done", !.queries = 0,
                             !.settled = "resolved", !.cardsAtCall = deck,
                             !.returned = blockAt(deck, draw)],
          cards |-> deck]
    ELSE [boot |-> [b EXCEPT !.stage = "single", !.queries = 1, !.settled = "no",
                             !.lastAnswer = "none", !.cardsAtCall = deck,
                             !.returned = NoBlock,
                             !.query = getRandomQuery(b.queryList, draw)],
          cards |-> deck]

\* A flip of the shuffle variant calls fetchSingleCardContent: the first
\* one finds cards empty.
FlipFetch(draw) ==
    /\ boot.stage \in {"ready", "single done"}
    /\ boot.script = "shuffle"
    /\ LET call == fetchSingleCardContent(boot, cards, draw)
       IN  BootStep(call.boot, call.cards)

\* A query of fetchSingleCardContent comes back with blocks: the promise
\* resolves when the flip goes on to its texture, else a new query is out.
SingleAnswer(blocks, positions, draw) ==
    /\ boot.stage = "single"
    /\ LET s1 == contentFetched([St EXCEPT !.pending = << SingleFlip >>], 1, blocks)
           deck == sortByPosition(s1.cards, positions)
       IN  IF s1.pending[1].stage = "content"
           THEN /\ boot.queries < MaxQueries
                /\ BootStep([boot EXCEPT !.queries = @ + 1, !.lastAnswer = "empty",
                                         !.answer = blocks,
                                         !.query = getRandomQuery(boot.queryList, draw)],
                            deck)
           ELSE BootStep([boot EXCEPT !.stage = "single done",
                                      !.settled = "resolved",
                                      !.lastAnswer = "content",
                                      !.answer = blocks,
                                      !.returned = blockAt(deck, draw)],
                         deck)

\* A query of fetchSingleCardContent throws: the promise is rejected.
SingleThrows(error) ==
    /\ boot.stage = "single"
    /\ BootStep([boot EXCEPT !.stage = "single done", !.settled = "rejected",
                             !.lastAnswer = error], cards)

BootNext ==
    \/ DOMContentLoaded
    \/ \E blocks \in DeckResponses, positions \in PositionDraws,
            draw \in 0..(RandomLevels - 1) : FetchAnswer(blocks, positions, draw)
    \/ \E card \in 1..DomCards, draw \in 0..(RandomLevels - 1) : DomClick(card, draw)
    \/ \E error \in FetchErrors : FetchThrows(error)
    \/ BootWait
    \/ BootRetry
    \/ \E file \in DataFiles : QueriesLoaded(file)
    \/ \E draw \in 0..(RandomLevels - 1) : FlipFetch(draw)
    \/ \E blocks \in DeckResponses, positions \in PositionDraws,
            draw \in 0..(RandomLevels - 1) : SingleAnswer(blocks, positions, draw)
    \/ \E error \in FetchErrors : SingleThrows(error)

BootSpec == BootInit /\ [][BootNext]_vars

(* --------------------- one tween, on its own -------------------------- *)

\* easedProgress + oscillation of animateLabelAppearance,
\* Math.sin(progress * Math.PI / 2) + 0.2 * Math.sin(progress * 10) * (1 - progress),
\* at the two ends.
labelEase(progress) ==
    CASE progress = Num(0) -> Num(0)
      [] progress = Num(1) -> Num(1)

Ease(name, progress) ==
    CASE name = "outCubic" -> easeOutCubic(progress)
      [] name = "outQuad" -> easeOutQuad(progress)
      [] name = "inOutQuad" -> easeInOutQuad(progress)
      [] name = "inOutCubic" -> easeInOutCubic(progress)
      [] name = "linear" -> linear(progress)
      [] name = "label" -> labelEase(progress)

Part(name, start, target) == [name |-> name, start |-> start, target |-> target]

\* The tweens of the page: duration in units of 50 ms, easing, and the
\* components each interpolates.  Angles are in units of pi.  "scenario"
\* is updateScale with the numbers of the end-to-end scenario of the
\* specification: from 0 to 100, 1000 ms.
TweenOf(kind) ==
    CASE kind = "entry" ->
            [duration |-> EntryDuration, easing |-> "outCubic",
             parts |-> << Part("position.y", Num(5), Num(0)) >>]
      [] kind = "flip" ->
            [duration |-> FlipDuration, easing |-> "inOutQuad",
             parts |-> << Part("rotation.x", Num(1), Num(0)) >>]
      [] kind = "flipback" ->
            [duration |-> FlipBackDuration, easing |-> "inOutQuad",
             parts |-> << Part("rotation.x", Num(0), Num(1)) >>]
      [] kind = "label" ->
            [duration |-> LabelDuration, easing |-> "label",
             parts |-> << Part("opacity", Num(0), Num(1)) >>]
      [] kind = "hover" ->
            [duration |-> ScaleDuration, easing |-> "outQuad",
             parts |-> << Part("scale.x", Num(1), Rat(102, 100)) >>]
      [] kind = "scenario" ->
            [duration |-> ScenarioDuration, easing |-> "outQuad",
             parts |-> << Part("scale.x", Num(0), Num(100)) >>]
      [] kind = "flipToBack" ->
            [duration |-> FlipDuration, easing |-> "outQuad",
             parts |-> << Part("rotation.y", Num(1), Num(0)) >>]
      [] kind = "flyAwayCard" ->
            [duration |-> FlyMin, easing |-> "inOutCubic",
             parts |-> << Part("position.x", Num(3), Num(-12)),
                          Part("scale", Num(1), Rat(2, 10)) >>]
      [] kind = "flyAway" ->
            [duration |-> FlyMax, easing |-> "linear",
             parts |-> << Part("position.x", Rat(-16, 10), Num(9)) >>]
      [] kind = "move" ->
            [duration |-> MoveDuration, easing |-> "outCubic",
             parts |-> << Part("position.x", Num(3), Rat(-16, 10)),
                          Part("position.y", Num(2), Num(0)),
                          Part("scale.x", Rat(3, 2), Num(1)) >>]
      [] kind = "appear" ->
            [duration |-> AppearDuration, easing |-> "outCubic",
             parts |-> << Part("scale", Rat(1, 100), Num(1)) >>]

DriverKinds ==
    { "entry", "flip", "flipback", "label", "hover", "scenario", "flipToBack",
      "flyAwayCard", "flyAway", "move", "appear" }

\* The values of Date.now() - startTime at which a frame may find the
\* tween: before the start (the clock of the machine was set back), on the
\* way, at the end and after it.  The sines of "label", "move" and the
\* cube of "appear" are computed where they are fractions of small size.
Instants(kind) ==
    LET d == TweenOf(kind).duration
    IN  CASE kind = "label" -> {0, d, d + 2}
          [] kind = "move" -> {-2, 0, 2, 6, 10, 12, 14}
          [] kind = "appear" -> { 6 * k : k \in -1..11 }
          [] OTHER -> (-ClockSkew)..(d + 2)

\* What one call of the update closure writes.
written(kind, progress) ==
    LET tw == TweenOf(kind)
        easedProgress == Ease(tw.easing, progress)
    IN  [k \in 1..Len(tw.parts) |->
            LET lerp == Interpolate(tw.parts[k].start, tw.parts[k].target, easedProgress)
            IN  IF kind = "move" /\ tw.parts[k].name = "position.y"
                THEN Plus(lerp, arcHeight(progress))
                ELSE lerp]

\* updateCardRotation as it would be without its textureChanged flag.
updateCardRotationEveryTick(d, progress) ==
    IF d.kind /= "flip" THEN d
    ELSE
        LET swap == ~Less(progress, Half)
            d1 == [d EXCEPT !.halfCalls = IF swap THEN Min(@ + 1, 2) ELSE @,
                            !.textureChanged = @ \/ swap,
                            !.swaps = IF swap THEN Min(@ + 1, 2) ELSE @,
                            !.swapAt = IF swap THEN progress ELSE @]
            d2 == IF Less(progress, Num(1)) THEN d1 ELSE [d1 EXCEPT !.busy = FALSE]
        IN  IF Less(progress, Num(1)) \/ d.label = "" THEN d2
            ELSE [d2 EXCEPT !.labels = @ + 1, !.labelSawBusy = d2.busy]

\* What updateCardRotation of animateCardFlip does besides the write of
\* rotation.x: the front texture is replaced at progress >= 0.5 unless
\* textureChanged is set, and at progress 1 the busy flag is cleared and
\* then, if there is a label, createLabelForCard is called.
updateCardRotation(d, progress) ==
    IF d.kind /= "flip" THEN d
    ELSE
        LET half == ~Less(progress, Half)
            swap == half /\ ~d.textureChanged
            d1 == [d EXCEPT !.halfCalls = IF half THEN Min(@ + 1, 2) ELSE @,
                            !.textureChanged = @ \/ swap,
                            !.swaps = IF swap THEN Min(@ + 1, 2) ELSE @,
                            !.swapAt = IF swap THEN progress ELSE @]
            d2 == IF Less(progress, Num(1)) THEN d1 ELSE [d1 EXCEPT !.busy = FALSE]
        IN  IF Less(progress, Num(1)) \/ d.label = "" THEN d2
            ELSE [d2 EXCEPT !.labels = @ + 1, !.labelSawBusy = d2.busy]

\* update as it would be if it asked for another frame at progress 1 too.
updateAndGoOn(d, elapsed) ==
    LET progress == Progress(elapsed, TweenOf(d.kind).duration)
    IN  [d EXCEPT !.elapsed = elapsed,
                  !.progress = progress,
                  !.easedProgress = Ease(TweenOf(d.kind).easing, progress),
                  !.writes = written(d.kind, progress),
                  !.calls = Min(@ + 1, 2),
                  !.scheduled = TRUE,
                  !.completions = IF Less(progress, Num(1)) THEN @ ELSE @ + 1]

\* One call of the update closure when Date.now() - startTime = elapsed:
\* it writes, and asks for another frame or runs its completion branch.
update(d, elapsed) ==
    LET progress == Progress(elapsed, TweenOf(d.kind).duration)
    IN  updateCardRotation(
            [d EXCEPT !.elapsed = elapsed,
                      !.progress = progress,
                      !.easedProgress = Ease(TweenOf(d.kind).easing, progress),
                      !.writes = written(d.kind, progress),
                      !.calls = Min(@ + 1, 2),
                      !.scheduled = Less(progress, Num(1)),
                      !.completions = IF Less(progress, Num(1)) THEN @ ELSE @ + 1],
            progress)

\* A tween has been created and its first call is due.
TweenInit ==
    /\ PageAt("shuffle", <<>>)
    /\ selection = NoSelection
    /\ boot = Booted
    /\ pointer = NoPointer
    /\ \E kind \in DriverKinds :
        \E label \in (IF kind = "flip" THEN {LabelFor(1), LabelFor(4)} ELSE {"none"}) :
            driver = [stage |-> "run", kind |-> kind, elapsed |-> 0,
                      progress |-> Num(0), easedProgress |-> Num(0),
                      writes |-> <<>>, calls |-> 0, scheduled |-> TRUE,
                      completions |-> 0,
                      label |-> label, busy |-> kind = "flip",
                      textureChanged |-> FALSE, swaps |-> 0, swapAt |-> Num(0),
                      halfCalls |-> 0, labels |-> 0, labelSawBusy |-> FALSE]

\* Date.now() - startTime at the first call: the closure is called when it
\* is made, but for the two tweens of resetTarotReading, which take
\* startTime before the setTimeout that starts card i (i * 200 ms for the
\* flip back, i * 100 ms for the fly-away).
FirstCall(kind) ==
    CASE kind = "flipback" -> { i * FlipBackDelay : i \in 0..(numCards - 1) }
      [] kind = "flyAway" -> { i * FlyDelay : i \in 0..(numCards - 1) }
      [] OTHER -> {0}

\* The callback that the tween has registered is called.
Frame(elapsed) ==
    /\ driver.scheduled
    /\ driver.calls = 0 => elapsed \in FirstCall(driver.kind)
    /\ driver' = update(driver, elapsed)
    /\ UNCHANGED << pageVars, selection, boot, pointer >>

TweenNext ==
    \E elapsed \in Instants(driver.kind) \cup FirstCall(driver.kind) : Frame(elapsed)

TweenSpec == TweenInit /\ [][TweenNext]_vars

(* ------------------- the selection, on its own ------------------------ *)

\* selectAndPlaceFourCards and the end of moveSelectedCardsToPosition, run
\* on pools of every size up to numShuffleCards and on the pool of 60 that
\* createShuffleAnimation makes, with every sequence of draws.
CosmicCards == 60

PoolSizes == 0..numShuffleCards \cup {CosmicCards}

\* Where card k of the pool is when the move starts.
StartPos(k) == [x |-> Rat(7 * k - 16, 3), y |-> Rat(5 - 2 * k, 2)]

SelectInit ==
    /\ PageAt("shuffle", <<>>)
    /\ driver = NoDriver
    /\ boot = Booted
    /\ pointer = NoPointer
    /\ \E n \in PoolSizes, d \in [1..numCardsToKeep -> 0..(RandomLevels - 1)] :
            selection = [stage |-> "pool", pool |-> n, draws |-> d,
                         kept |-> <<>>, removed |-> <<>>, landed |-> <<>>,
                         shuffleCards |-> 1..n, inScene |-> 1..n,
                         flying |-> {}, landedLate |-> FALSE]

\* The end of moveToPosition's completion branch as it would be if it
\* only emptied the array.
clearShuffleCardsArrayOnly(sel) ==
    [sel EXCEPT !.shuffleCards = {}]

\* The end of moveToPosition's completion branch: every card of
\* shuffleCards is removed from the scene and the array is emptied.
clearShuffleCards(sel) ==
    [sel EXCEPT !.inScene = @ \ sel.shuffleCards,
                !.shuffleCards = {}]

\* The completion branch of flyAway for the cards of landing.
flyAwayCard(sel, landing) ==
    [sel EXCEPT !.inScene = @ \ landing,
                !.flying = @ \ landing,
                !.landedLate = @ \/ sel.stage = "placed"]

\* The fly-away tweens that may complete in one frame: any of a few, and
\* of many all, the lower half or the upper half.
LandingSets ==
    IF Cardinality(selection.flying) <= numCardsToKeep
    THEN SUBSET selection.flying \ {{}}
    ELSE { selection.flying,
           { k \in selection.flying : 2 * k <= CosmicCards },
           { k \in selection.flying : 2 * k > CosmicCards } } \ {{}}

\* The selection loop of selectAndPlaceFourCards; flyAwayCard is called
\* for every card that was not drawn.
SelectCards ==
    /\ selection.stage = "pool"
    /\ LET sel == SelectFour(selection.pool, selection.draws)
       IN  selection' = [selection EXCEPT
                !.stage = "selected",
                !.kept = sel.kept,
                !.removed = sel.removed,
                !.flying = { sel.removed[j] : j \in 1..Len(sel.removed) }]
    /\ UNCHANGED << pageVars, driver, boot, pointer >>

\* The last call of moveToPosition of every kept card, moveDuration after
\* moveSelectedCardsToPosition.
LandCards ==
    /\ selection.stage = "selected"
    /\ LET selectedCards == sortByPositionIndex(selection.kept)
           positions == finalPositions(Len(selectedCards))
           moved == [selection EXCEPT
                !.stage = "placed",
                !.landed = [j \in 1..Len(selectedCards) |->
                              [card |-> selectedCards[j].card,
                               at |-> moveToPosition(selectedCards[j],
                                          StartPos(selectedCards[j].card),
                                          positions, MoveDuration)]]]
       IN  selection' = IF selectedCards = <<>> THEN moved
                        ELSE clearShuffleCards(moved)
    /\ UNCHANGED << pageVars, driver, boot, pointer >>

\* The last call of flyAway of some of the discarded cards.
FlyAwayLands ==
    /\ selection.stage \in {"selected", "placed"}
    /\ \E landing \in LandingSets : selection' = flyAwayCard(selection, landing)
    /\ UNCHANGED << pageVars, driver, boot, pointer >>

SelectNext == SelectCards \/ LandCards \/ FlyAwayLands

SelectSpec == SelectInit /\ [][SelectNext]_vars

(* ---------------------- the hover, on its own ------------------------- *)

\* Cards the pointer moves over, and scale tweens in flight at once.  The
\* code caps neither.
HoverCards == 2
MaxScaleLoops == 3

\* gsapLikeScale: the updateScale closure is made and called at once; it
\* finds progress 0 and registers itself for the next frame.  Nothing of
\* what an earlier call registered is cancelled.
gsapLikeScale(p, object, target) ==
    [p EXCEPT !.loops = Append(@, [object |-> object, target |-> target,
                                   elapsed |-> 0])]

\* The else branch of the mousemove handler and the mouseleave handler:
\* the hovered card, if any, is scaled back.
mouseleave(p) ==
    IF p.hoveredCard /= 0
    THEN [gsapLikeScale(p, p.hoveredCard, "rest") EXCEPT !.hoveredCard = 0]
    ELSE p

\* The mousemove handler past its busy check; hit is the card under the
\* pointer, 0 when the ray meets none.
mousemove(p, hit) ==
    IF hit = 0 THEN mouseleave(p)
    ELSE LET p1 == IF p.hoveredCard /= 0 /\ p.hoveredCard /= hit
                   THEN [gsapLikeScale(p, p.hoveredCard, "rest") EXCEPT !.hoveredCard = 0]
                   ELSE p
         IN  IF p1.hoveredCard /= hit
             THEN gsapLikeScale([p1 EXCEPT !.hoveredCard = hit], hit, "hovered")
             ELSE p1

\* A frame 50 ms later: every registered updateScale writes the scale of
\* its object, and registers itself again while progress < 1.
updateScale(p) ==
    LET later == [k \in 1..Len(p.loops) |-> [p.loops[k] EXCEPT !.elapsed = @ + 1]]
    IN  [p EXCEPT !.loops = SelectSeq(later, LAMBDA l : l.elapsed < ScaleDuration)]

\* The page is idle with its four cards dealt; the pointer is off the cards.
HoverInit ==
    /\ variant = "entry"
    /\ backTexture = "settled"
    /\ isInitialAnimation = TRUE
    /\ animating = FALSE
    /\ revealedCardCount = 0
    /\ cards = << Block(2, "u2") >>
    /\ cardMeshes = [i \in 1..numCards |-> Card]
    /\ shuffleCards = <<>>
    /\ pending = <<>>
    /\ tweens = <<>>
    /\ timers = <<>>
    /\ resets = [r \in 1..MaxAsync |-> IdleReset]
    /\ resetVisible = FALSE
    /\ entryClock = (numCards - 1) * EntryDelay + EntryDuration
    /\ inputPhase = 0
    /\ requests = 0
    /\ selection = NoSelection
    /\ driver = NoDriver
    /\ boot = Booted
    /\ pointer = [stage |-> "hover", hoveredCard |-> 0, loops |-> <<>>]

MouseMove(hit) ==
    /\ ~animating
    /\ Len(pointer.loops) + 2 <= MaxScaleLoops
    /\ pointer' = mousemove(pointer, hit)
    /\ UNCHANGED << pageVars, selection, driver, boot >>

MouseLeave ==
    /\ Len(pointer.loops) < MaxScaleLoops
    /\ pointer' = mouseleave(pointer)
    /\ UNCHANGED << pageVars, selection, driver, boot >>

HoverFrame ==
    /\ pointer.loops /= <<>>
    /\ pointer' = updateScale(pointer)
    /\ UNCHANGED << pageVars, selection, driver, boot >>

HoverNext ==
    \/ \E hit \in 0..HoverCards : MouseMove(hit)
    \/ MouseLeave
    \/ HoverFrame

HoverSpec == HoverInit /\ [][HoverNext]_vars

(* ------------------ the pointer gesture, on its own -------------------- *)

\* clickDuration < 300 in units of 50 ms.
ClickLimit == 6

\* Gestures in one behaviour.
MaxGestures == 2

\* The mousedown listener.  sinceDown, movedFar, long and flippedBy describe
\* the gesture as it was, not as the listeners see it.
mousedownListener(p, hit) ==
    [p EXCEPT !.mouseDown = TRUE, !.isDragging = FALSE,
              !.phase = "down", !.over = hit, !.sinceDown = 0,
              !.movedFar = FALSE, !.long = FALSE, !.flippedBy = "none",
              !.gestures = @ + 1]

\* The mousemove listener: it returns at once while the page is busy; far
\* is dx > 5 or dy > 5 from the position of the mousedown.
mousemoveListener(p, busy, far, hit) ==
    LET seen == [p EXCEPT !.over = hit,
                          !.movedFar = @ \/ (p.phase = "down" /\ far)]
    IN  IF busy THEN seen
        ELSE mousemove([seen EXCEPT !.isDragging = @ \/ (p.mouseDown /\ far)], hit)

\* isClick of the mouseup listener; with mouseDownTime = 0 the duration is
\* the time since 1970.
isClick(p) == ~p.isDragging /\ p.mouseDown /\ p.sinceDown < ClickLimit

\* What the mouseup listener does to the page.
mouseupListener(st, p) ==
    IF isClick(p) THEN clickHandler(st, p.over) ELSE st

\* The mouseleave listener.
mouseleaveListener(p) ==
    [mouseleave(p) EXCEPT !.mouseDown = FALSE, !.isDragging = FALSE, !.over = 0]

RECURSIVE updateScaleBy(_, _)
updateScaleBy(p, d) == IF d = 0 THEN p ELSE updateScaleBy(updateScale(p), d - 1)

\* The page is idle with its four cards dealt; no button is down.
GestureInit ==
    /\ variant = "entry"
    /\ backTexture = "settled"
    /\ isInitialAnimation = TRUE
    /\ animating = FALSE
    /\ revealedCardCount = 0
    /\ cards = << Block(2, "u2") >>
    /\ cardMeshes = [i \in 1..numCards |-> Card]
    /\ shuffleCards = <<>>
    /\ pending = <<>>
    /\ tweens = <<>>
    /\ timers = <<>>
    /\ resets = [r \in 1..MaxAsync |-> IdleReset]
    /\ resetVisible = FALSE
    /\ entryClock = (numCards - 1) * EntryDelay + EntryDuration
    /\ inputPhase = 0
    /\ requests = 0
    /\ selection = NoSelection
    /\ driver = NoDriver
    /\ boot = Booted
    /\ pointer = [stage |-> "gesture", hoveredCard |-> 0, loops |-> <<>>,
                  mouseDown |-> FALSE, isDragging |-> FALSE, phase |-> "up",
                  over |-> 0, sinceDown |-> 0, movedFar |-> FALSE,
                  long |-> FALSE, flippedBy |-> "none", gestures |-> 0]

GestureDown(hit) ==
    /\ pointer.phase = "up"
    /\ pointer.gestures < MaxGestures
    /\ pointer' = mousedownListener(pointer, hit)
    /\ UNCHANGED << pageVars, selection, driver, boot >>

GestureMove(far, hit) ==
    /\ pointer.phase = "down"
    /\ Len(pointer.loops) + 2 <= MaxScaleLoops
    /\ pointer' = mousemoveListener(pointer, animating, far, hit)
    /\ UNCHANGED << pageVars, selection, driver, boot >>

GestureLeave ==
    /\ pointer.phase = "down"
    /\ Len(pointer.loops) < MaxScaleLoops
    /\ pointer' = mouseleaveListener(pointer)
    /\ UNCHANGED << pageVars, selection, driver, boot >>

\* The button is released over the canvas: the mouseup listener runs.
GestureUp ==
    /\ pointer.phase = "down"
    /\ LET done == mouseupListener(St, pointer)
       IN  /\ CommitPage(done)
           /\ pointer' = [pointer EXCEPT
                    !.mouseDown = FALSE, !.isDragging = FALSE,
                    !.phase = "released",
                    !.long = pointer.sinceDown >= ClickLimit,
                    !.flippedBy = IF Len(done.pending) > Len(pending)
                                  THEN "mouseup" ELSE @]
    /\ UNCHANGED << selection, driver, boot >>

\* The click event that follows a mousedown and a mouseup on the canvas:
\* the click listener runs clickHandler.
GestureClick ==
    /\ pointer.phase = "released"
    /\ LET done == clickHandler(St, pointer.over)
       IN  /\ CommitPage(done)
           /\ pointer' = [pointer EXCEPT
                    !.phase = "up",
                    !.flippedBy = IF Len(done.pending) > Len(pending)
                                  THEN "click" ELSE @]
    /\ UNCHANGED << selection, driver, boot >>

\* Time passes to the next instant and the frames run.
GestureTick ==
    /\ timers = <<>>
    /\ tweens /= <<>> \/ pointer.loops /= <<>> \/ pointer.phase = "down"
    /\ LET s1 == Advance(St, NextInstant)
           s2 == runFrame([s1 EXCEPT !.queue = s1.tweens, !.tweens = <<>>])
       IN  /\ CommitPage([s2 EXCEPT !.inputPhase = (@ + NextInstant) % InputPeriod])
           /\ pointer' = [updateScaleBy(pointer, NextInstant) EXCEPT
                            !.sinceDown = IF pointer.phase = "down"
                                          THEN Min(@ + NextInstant, ClickLimit)
                                          ELSE @]
    /\ UNCHANGED << selection, driver, boot >>

GestureNext ==
    \/ \E hit \in 0..HoverCards : GestureDown(hit)
    \/ \E far \in BOOLEAN, hit \in 0..HoverCards : GestureMove(far, hit)
    \/ GestureLeave
    \/ GestureUp
    \/ GestureClick
    \/ GestureTick
    \/ \E k \in 1..Len(pending) : TextureLoad(k)

GestureSpec == GestureInit /\ [][GestureNext]_vars

(* ---------------- the hover across a reset, shuffle variant ------------- *)

\* The mousemove handler of the shuffle variant past its busy check: over
\* the Are.na link icon of a card the hovered card is scaled back and the
\* handler returns.
mousemoveShuffle(p, hit, onLink) ==
    IF onLink THEN mouseleave(p) ELSE mousemove(p, hit)

\* cardMeshes = []: what refers to card k keeps the object, which is no
\* card of the array any more; -k stands for it.
forget(p) ==
    LET old(k) == IF k > 0 THEN -k ELSE k
    IN  [p EXCEPT !.hoveredCard = old(@),
                  !.loops = [j \in 1..Len(@) |-> [@[j] EXCEPT !.object = old(@)]]]

\* A step of the page, seen from the pointer.
PageStep(done) ==
    /\ CommitPage(done)
    /\ pointer' = IF cardMeshes /= <<>> /\ done.cardMeshes = <<>>
                  THEN forget(pointer) ELSE pointer
    /\ UNCHANGED << selection, driver, boot >>

\* A reading of the shuffle variant has ended: three cards are face up
\* with their labels and the reset button is shown.
ReadCard(count) ==
    [Card EXCEPT !.revealed = TRUE, !.selected = TRUE, !.faceUp = TRUE,
                 !.flipStarts = 1, !.textLabel = LabelFor(count)]

ReadingDone ==
    /\ variant = "shuffle"
    /\ backTexture = "settled"
    /\ isInitialAnimation = TRUE
    /\ animating = FALSE
    /\ revealedCardCount = MAX_REVEALED_CARDS
    /\ cards = << Block(2, "u2") >>
    /\ cardMeshes = [i \in 1..numCards |->
                        IF i <= MAX_REVEALED_CARDS THEN ReadCard(i) ELSE Card]
    /\ shuffleCards = <<>>
    /\ pending = <<>>
    /\ tweens = <<>>
    /\ timers = <<>>
    /\ resets = [r \in 1..MaxAsync |-> IdleReset]
    /\ resetVisible = TRUE
    /\ entryClock = -1
    /\ inputPhase = 0

HoverResetInit ==
    /\ ReadingDone
    /\ requests = MAX_REVEALED_CARDS
    /\ selection = NoSelection
    /\ driver = NoDriver
    /\ boot = Booted
    /\ pointer = [stage |-> "hover", hoveredCard |-> 0, loops |-> <<>>]

PointerMove(hit, onLink) ==
    /\ ~animating
    /\ hit <= Len(cardMeshes)
    /\ Len(pointer.loops) + 2 <= MaxScaleLoops
    /\ pointer' = mousemoveShuffle(pointer, hit, onLink)
    /\ UNCHANGED << pageVars, selection, driver, boot >>

PointerLeave ==
    /\ Len(pointer.loops) < MaxScaleLoops
    /\ pointer' = mouseleave(pointer)
    /\ UNCHANGED << pageVars, selection, driver, boot >>

\* The reset button is activated, by the pointer or by the keyboard.
PointerReset ==
    /\ resetVisible
    /\ ~animating
    /\ PageStep(resetTarotReading(St))

PointerTimer ==
    /\ Due("flipback") \/ Due("flyreset")
    /\ LET t == timers[1]
       IN  PageStep(updateTween(Fired,
                [Tween(t.kind, t.card, t.elapsed,
                       IF t.kind = "flipback" THEN FlipBackDuration ELSE FlyMax,
                       t.elapsed, "none", t.rid, t.n)
                    EXCEPT !.startUp = t.startUp]))

PointerContent(r, blocks) ==
    /\ resets[r].stage = "fetch"
    /\ LET s1 == fetchRandomContent(St, blocks)
       IN  PageStep(IF s1.cards = <<>> THEN s1 ELSE resetFetched(s1, r, FALSE))

PointerContentError(r) ==
    /\ resets[r].stage = "fetch"
    /\ PageStep(resetFetchFailed(St, r))

\* Time passes to the next instant; the frames of the page and of the
\* scale loops run.
PointerTick ==
    /\ tweens /= <<>> \/ timers /= <<>> \/ pointer.loops /= <<>>
    /\ \A k \in 1..Len(timers) : timers[k].remaining > 0
    /\ LET s1 == Advance(St, NextInstant)
           s2 == runFrame([s1 EXCEPT !.queue = s1.tweens, !.tweens = <<>>])
           done == [s2 EXCEPT !.inputPhase = (@ + NextInstant) % InputPeriod]
       IN  /\ CommitPage(done)
           /\ pointer' = updateScaleBy(
                            IF cardMeshes /= <<>> /\ done.cardMeshes = <<>>
                            THEN forget(pointer) ELSE pointer,
                            NextInstant)
    /\ UNCHANGED << selection, driver, boot >>

HoverResetNext ==
    \/ \E hit \in 0..HoverCards, onLink \in BOOLEAN : PointerMove(hit, onLink)
    \/ PointerLeave
    \/ PointerReset
    \/ PointerTimer
    \/ \E r \in DOMAIN resets, blocks \in Responses : PointerContent(r, blocks)
    \/ \E r \in DOMAIN resets : PointerContentError(r)
    \/ PointerTick

HoverResetSpec == HoverResetInit /\ [][HoverResetNext]_vars

(* ------------------------------- claims -------------------------------- *)

KindsOf(seq) == { seq[k].kind : k \in 1..Len(seq) }

Revealed == { i \in 1..Len(cardMeshes) : cardMeshes[i].revealed }

\* C1: a card flip that has started and has not reached progress 1 finds
\* the busy flag set.
C1_FlipInFlightIsBusy ==
    "flip" \in KindsOf(tweens) => animating

\* The phases that have a tween in flight or a timer armed.
ActivePhases ==
    LET kinds == KindsOf(tweens) \cup KindsOf(timers)
    IN  { ph \in {"flip", "reset", "entry", "shuffle"} :
            \/ ph = "flip" /\ "flip" \in kinds
            \/ ph = "reset" /\ kinds \cap {"flipback", "flyreset"} /= {}
            \/ ph = "entry" /\ "entry" \in kinds
            \/ ph = "shuffle" /\ kinds \cap {"appear", "select", "move"} /= {} }

FlipsInFlight == { k \in 1..Len(tweens) : tweens[k].kind = "flip" }

\* C2: at most one phase is active at a time: no two flips, and no two of
\* flip, reset, entry and shuffle, have tweens in flight together.
C2_OnePhaseAtATime ==
    /\ Cardinality(ActivePhases) <= 1
    /\ Cardinality(FlipsInFlight) <= 1

\* C3: with animating = true, flipCard on any card, the click handler on
\* any hit and resetTarotReading leave the whole state as it is.
C3_BusyRequestIsNoOp ==
    animating =>
        /\ \A c \in 0..Len(cardMeshes) :
            /\ flipCard(St, c) = St
            /\ clickHandler(St, c) = St
        /\ resetTarotReading(St) = St

\* C3 witness: the page is busy while a face-down card could still be
\* revealed and the reset button is on offer.
C3_Witness ==
    /\ animating
    /\ revealedCardCount < MAX_REVEALED_CARDS
    /\ resetVisible
    /\ \E c \in 1..Len(cardMeshes) : ~cardMeshes[c].revealed

\* C4: the counter never exceeds MAX_REVEALED_CARDS and at most three
\* cards are marked revealed.
C4_AtMostThreeRevealed ==
    /\ revealedCardCount <= MAX_REVEALED_CARDS
    /\ Cardinality(Revealed) <= MAX_REVEALED_CARDS

\* C5: the labels of the cards that completed a flip in the reading are
\* pairwise distinct.
C5_DistinctLabels ==
    \A i, j \in 1..Len(cardMeshes) :
        (i /= j /\ cardMeshes[i].textLabel /= "none")
            => cardMeshes[i].textLabel /= cardMeshes[j].textLabel

\* C6: within one reading animateCardFlip starts at most once per card, and
\* flipCard on a revealed card changes nothing.
C6_OneFlipPerReading ==
    /\ \A i \in 1..Len(cardMeshes) : cardMeshes[i].flipStarts <= 1
    /\ \A i \in Revealed : flipCard(St, i) = St

EntryTotal == (numCards - 1) * EntryDelay + EntryDuration

\* C7: from the start of the entry phase the busy flag stays set while an
\* entry tween is in flight or still to start, that is for
\* 3 * 150 + 600 ms.
C7_EntryBusyUntilAllLanded ==
    /\ (entryClock >= 0 /\ entryClock < EntryTotal) => animating
    /\ "entry" \in (KindsOf(tweens) \cup KindsOf(timers)) => animating

\* C7 witness: the entry phase has ended, 3 * 150 + 600 ms after its
\* start, and the busy flag is clear.
C7_Witness ==
    /\ entryClock = EntryTotal
    /\ ~animating
    /\ Len(cardMeshes) = numCards
    /\ "entry" \notin (KindsOf(tweens) \cup KindsOf(timers))

StaggerDelay(kind) ==
    CASE kind = "entry" -> EntryDelay
      [] kind = "flipback" -> FlipBackDelay
      [] kind = "flyreset" -> FlyDelay

\* C8: the tween of item i of a staggered phase starts i * delay after the
\* start of the phase: at that time it is called first, with no time
\* elapsed on its own clock.
C8_StaggeredStart ==
    \A k \in 1..Len(tweens) :
        tweens[k].kind \in {"entry", "flipback", "flyreset"} =>
            /\ tweens[k].offset = tweens[k].n * StaggerDelay(tweens[k].kind)
            /\ tweens[k].lag = 0

OfReset(seq, kind, r) ==
    { k \in 1..Len(seq) : seq[k].kind = kind /\ seq[k].rid = r }

\* C9: a reset leaves its flip-back stage (counter set to 0, next step
\* started) only when none of its flip-back tweens is in flight or still to
\* start, and it leaves its fly-away stage (cardMeshes cleared, new content
\* fetched) only when none of its fly-away tweens is.
C9_ResetStagesWaitForAll ==
    \A r \in DOMAIN resets :
        /\ resets[r].stage /= "flipback" =>
            OfReset(tweens, "flipback", r) \cup OfReset(timers, "flipback", r) = {}
        /\ resets[r].stage \notin {"flipback", "flyaway"} =>
            OfReset(tweens, "flyreset", r) \cup OfReset(timers, "flyreset", r) = {}

\* C9 witness: a reset of the shuffle variant has flipped its cards back
\* and waits for the last fly-away.
C9_Witness ==
    \E r \in DOMAIN resets :
        /\ resets[r].stage = "flyaway"
        /\ resets[r].waiting = 1
        /\ revealedCardCount = 0
        /\ Len(cardMeshes) = numCards
        /\ OfReset(tweens, "flyreset", r) /= {}

\* C10: the busy flag is set for the whole cosmic shuffle, from its appear
\* tween to the end of the move that creates the playable cards.
C10_ShuffleIsBusy ==
    ShuffleCount > 0 => animating

\* C11: in the cull-and-fly phase the busy flag goes from true to false
\* only when every tween of the phase has completed: no move tween of a
\* kept card and no fly-away tween of a discarded card is left in flight.
C11_CullBusyUntilAllDone ==
    [][ ("move" \in KindsOf(tweens) /\ animating /\ ~animating')
            => KindsOf(tweens') \cap {"move", "flyshuffle"} = {} ]_vars

Min4(n) == IF n < numCardsToKeep THEN n ELSE numCardsToKeep

KeptCards == { selection.kept[j].card : j \in 1..Len(selection.kept) }

RemovedCards == { selection.removed[j] : j \in 1..Len(selection.removed) }

\* C12: the selection partitions the pool: of a pool of N cards it keeps
\* min(4, N) pairwise distinct cards and discards the other N - min(4, N),
\* no card is in both lists and every card of the pool is in one of them,
\* whatever the draws.
C12_SelectionPartitionsPool ==
    selection.stage \in {"selected", "placed"} =>
        /\ Len(selection.kept) = Min4(selection.pool)
        /\ Cardinality(KeptCards) = Min4(selection.pool)
        /\ Len(selection.removed) = selection.pool - Min4(selection.pool)
        /\ Cardinality(RemovedCards) = selection.pool - Min4(selection.pool)
        /\ KeptCards \cap RemovedCards = {}
        /\ KeptCards \cup RemovedCards = 1..selection.pool

\* C12 witness: the pool of 60 cards has been split into 4 kept and 56
\* discarded cards by draws that are not all alike.
C12_Witness ==
    /\ selection.stage = "selected"
    /\ selection.pool = CosmicCards
    /\ Len(selection.kept) = 4
    /\ Len(selection.removed) = 56
    /\ selection.draws[1] /= selection.draws[2]

Called == driver.stage = "run" /\ driver.calls > 0

\* C15: a tween runs its completion branch exactly once: the call that
\* finds progress = 1 registers no further call, so the branch is never
\* run a second time, and until then the tween stays registered.
C15_CompletesExactlyOnce ==
    driver.stage = "run" =>
        /\ driver.completions <= 1
        /\ driver.scheduled <=> driver.completions = 0
        /\ (Called /\ driver.progress = Num(1)) => ~driver.scheduled

\* C15 witness: a flip has been called more than once and has completed.
C15_Witness ==
    /\ Called
    /\ driver.kind = "flip"
    /\ driver.calls = 2
    /\ driver.completions = 1
    /\ ~driver.scheduled

\* C16: at every call of every tween progress lies between 0 and 1, also
\* when the clock read at the call is smaller than the start time.
C16_ProgressInUnitInterval ==
    Called =>
        /\ ~Less(driver.progress, Num(0))
        /\ ~Less(Num(1), driver.progress)

PartsOf(kind) == TweenOf(kind).parts

\* The value start + (target - start) * easedProgress of component k.
Lerp(k) ==
    Plus(PartsOf(driver.kind)[k].start,
         Times(Minus(PartsOf(driver.kind)[k].target, PartsOf(driver.kind)[k].start),
               driver.easedProgress))

PolynomialEasings == {"outCubic", "outQuad", "inOutQuad", "inOutCubic"}

\* C18: each polynomial easing gives 0 at progress 0 and 1 at progress 1,
\* and at progress 0.5 the two branches of the piecewise easings give the
\* same value.
C18_EasingEndsAndSeam ==
    (Called /\ TweenOf(driver.kind).easing \in PolynomialEasings) =>
        /\ driver.progress = Num(0) => driver.easedProgress = Num(0)
        /\ driver.progress = Num(1) => driver.easedProgress = Num(1)
        /\ (driver.progress = Half /\ TweenOf(driver.kind).easing = "inOutQuad") =>
              /\ easeInOutQuadLow(driver.progress) = easeInOutQuadHigh(driver.progress)
              /\ driver.easedProgress = easeInOutQuadLow(driver.progress)
        /\ (driver.progress = Half /\ TweenOf(driver.kind).easing = "inOutCubic") =>
              /\ easeInOutCubicLow(driver.progress) = easeInOutCubicHigh(driver.progress)
              /\ driver.easedProgress = easeInOutCubicLow(driver.progress)

\* C18 witness: the fly-away of a discarded card is at progress 0.5, on the
\* seam of the cubic easing.
C18_Witness ==
    /\ Called
    /\ driver.kind = "flyAwayCard"
    /\ driver.progress = Half
    /\ driver.easedProgress = Half


\* C19: a query that brings no block with an image makes
\* fetchRandomContent query again, it does not fail; and when
\* fetchRandomContent has resolved, cards is not empty and every card has
\* an image url.
C19_EmptyAnswerQueriesAgain ==
    /\ boot.stage \notin {"none", "ready"} => ~boot.resolved
    /\ (boot.script /= "shuffle" /\ boot.stage /= "ready"
            /\ boot.lastAnswer = "empty") =>
            /\ boot.stage = "fetching"
            /\ boot.queries >= 2
    /\ (boot.stage = "ready" /\ boot.resolved) =>
            /\ cards /= <<>>
            /\ \A k \in 1..Len(cards) : cards[k].url /= ""

\* C19 witness: fetchRandomContent has resolved at its third query, after
\* two answers without an image.
C19_Witness ==
    /\ boot.stage = "ready"
    /\ boot.resolved
    /\ boot.queries = 3
    /\ boot.failures = 0
    /\ cards /= <<>>

\* C20: an attempt of init that fails in its fetch creates no scene and
\* registers no listener, and init runs again 1000 ms later; after any
\* number of failed attempts and a success the scene has been set up once
\* and the listeners have been registered once.
C20_InitOnceAfterRetries ==
    /\ boot.stage \in {"loaded", "fetching", "backoff"} =>
            /\ boot.scenes = 0
            /\ boot.listeners = 0
    /\ (boot.stage = "fetching" /\ boot.failures > 0) => boot.waited = InitRetryDelay
    /\ (boot.stage = "ready" /\ boot.script /= "shuffle") =>
            /\ boot.listeners = 1
            /\ boot.scenes = IF boot.script = "dom" THEN 0 ELSE 1

\* C20 witness: init of the entry variant has succeeded at its third
\* attempt.
C20_Witness ==
    /\ boot.stage = "ready"
    /\ boot.script = "entry"
    /\ boot.failures = 2
    /\ boot.scenes = 1
    /\ boot.listeners = 1


HasImage(blocks) == \E k \in 1..Len(blocks) : blocks[k].url /= ""

Querying == boot.stage \in {"fetching", "single"}

\* C21: the retry on an empty result has no cap: while every answer has
\* come without a valid image and none has thrown, fetchRandomContent and
\* fetchSingleCardContent have a query out and have not settled, whatever
\* the number of queries; they settle only on an answer with an image
\* (resolved) or on a throw (rejected).
C21_EmptyAnswersNeverSettle ==
    /\ (Querying /\ boot.queries > 1) =>
            /\ boot.lastAnswer = "empty"
            /\ ~HasImage(boot.answer)
    /\ (boot.lastAnswer \in {"empty", "content"} /\ ~HasImage(boot.answer)) =>
            /\ Querying
            /\ boot.settled = "no"
            /\ ~boot.resolved
    /\ boot.resolved => HasImage(boot.answer) /\ boot.lastAnswer = "content"
    /\ boot.settled = "resolved" => HasImage(boot.answer) /\ boot.lastAnswer = "content"
    /\ boot.settled = "rejected" => boot.lastAnswer \in FetchErrors
    /\ boot.stage = "backoff" => boot.lastAnswer \in FetchErrors

\* C21 witness: fetchSingleCardContent has had MaxQueries - 1 answers
\* without an image and its last query is out.
C21_Witness ==
    /\ boot.stage = "single"
    /\ boot.queries = MaxQueries
    /\ boot.lastAnswer = "empty"
    /\ boot.answer = << Block(1, "") >>
    /\ boot.settled = "no"


\* C22: under the scheduling of the browser and a network that answers,
\* the busy flag is released again: every state with animating = true is
\* followed by a state with animating = false.
C22_BusyIsReleased == animating ~> ~animating

\* C22 witness: a reading of three cards of the shuffle variant has been
\* reset, the reset has run to its end with new cards and the busy flag is
\* released.
C22_Witness ==
    /\ ~animating
    /\ variant = "shuffle"
    /\ ~isInitialAnimation
    /\ requests >= MAX_REVEALED_CARDS + 1
    /\ revealedCardCount = 0
    /\ Len(cardMeshes) = numCards
    /\ \A r \in DOMAIN resets : resets[r].stage = "idle"
    /\ tweens = <<>>
    /\ timers = <<>>
    /\ pending = <<>>


\* C23: no two unfinished tweens write the same property of the same
\* object: of the scale tweens that gsapLikeScale has started, at most one
\* per card is still registered.
C23_OneScaleTweenPerCard ==
    pointer.stage = "hover" =>
        \A j, k \in 1..Len(pointer.loops) :
            j /= k => pointer.loops[j].object /= pointer.loops[k].object


\* What the catch of the load that pending flip k waits for leaves behind.
FailureOf(k) ==
    IF pending[k].stage = "texture" THEN textureFailed(St, k) ELSE contentFailed(St, k)

\* The cards a click would be accepted on.
Acceptable ==
    IF animating \/ revealedCardCount >= MAX_REVEALED_CARDS THEN {}
    ELSE { c \in 1..Len(cardMeshes) : ~cardMeshes[c].revealed }

\* C24: when the texture load or the content fetch of an accepted flip
\* fails, no flip is started (no tween, no timer, the busy flag as it was),
\* the card is neither revealed nor selected any more and the counter is
\* one less; a flip accepted with no valid image to load leaves the card
\* unrevealed and the counter as it was.
C24_FailedFlipIsUndone ==
    /\ \A k \in 1..Len(pending) :
        LET failed == FailureOf(k)
            c == pending[k].card
        IN  /\ failed.tweens = tweens
            /\ failed.timers = timers
            /\ failed.animating = animating
            /\ failed.pending = RemoveAt(pending, k)
            /\ failed.revealedCardCount = revealedCardCount - 1
            /\ c /= 0 =>
                /\ ~failed.cardMeshes[c].revealed
                /\ ~failed.cardMeshes[c].selected
                /\ \A d \in 1..Len(cardMeshes) :
                        d /= c => failed.cardMeshes[d] = cardMeshes[d]
    /\ (variant = "entry" /\ cards = <<>>) =>
            \A c \in Acceptable : flipCard(St, c) = St

\* C24 witness: the one flip that was accepted has failed: no card is
\* revealed, none has flipped, and the counter is back at 0.
C24_Witness ==
    /\ requests = 1
    /\ revealedCardCount = 0
    /\ Len(cardMeshes) = numCards
    /\ Revealed = {}
    /\ \A c \in 1..Len(cardMeshes) :
            cardMeshes[c].flipStarts = 0 /\ ~cardMeshes[c].selected
    /\ pending = <<>>
    /\ tweens = <<>>
    /\ ~animating


\* C25: within one flip the front texture is replaced exactly once, at the
\* first call that finds progress >= 0.5 and at no call before; it has been
\* replaced when the flip completes; and the label is created only at
\* progress 1, after the busy flag has been cleared.
C25_FlipEventsInOrder ==
    (Called /\ driver.kind = "flip") =>
        /\ driver.swaps <= 1
        /\ driver.swaps = 1 <=> driver.halfCalls >= 1
        /\ driver.swaps = 1 => ~Less(driver.swapAt, Half)
        /\ driver.completions >= 1 => driver.swaps = 1
        /\ driver.labels <= 1
        /\ driver.labels = 1 =>
            /\ driver.completions = 1
            /\ driver.progress = Num(1)
            /\ ~driver.labelSawBusy
            /\ ~driver.busy
        /\ (driver.completions = 1 /\ driver.label /= "") => driver.labels = 1
        /\ driver.completions = 0 => driver.busy

\* C25 witness: a flip has replaced its texture at progress 0.5, has
\* completed at a later call and has its label.
C25_Witness ==
    /\ Called
    /\ driver.kind = "flip"
    /\ driver.calls = 2
    /\ driver.swaps = 1
    /\ driver.swapAt = Half
    /\ driver.halfCalls = 2
    /\ driver.completions = 1
    /\ driver.labels = 1


\* The table as a reset is meant to leave it.
CleanTable ==
    /\ revealedCardCount = 0
    /\ \A i \in 1..Len(cardMeshes) :
        /\ ~cardMeshes[i].revealed
        /\ ~cardMeshes[i].selected
        /\ ~cardMeshes[i].faceUp
        /\ cardMeshes[i].textLabel = "none"

ResetCompletes ==
    \E r \in DOMAIN resets : resets[r].stage /= "idle" /\ resets'[r].stage = "idle"

NoResetUnderWay == \A r \in DOMAIN resets : resets[r].stage = "idle"

\* C26: when a reset completes the counter is 0 and no card is revealed,
\* selected, face up or labelled, and no step other than an accepted
\* request changes that, whatever loads were pending at the reset.
C26_ResetLeavesCleanTable ==
    [][ /\ ResetCompletes => CleanTable'
        /\ (CleanTable /\ NoResetUnderWay /\ requests' = requests) => CleanTable' ]_vars

\* C26, the first half alone: the table is clean in the step that
\* completes a reset.
C26_CleanAtCompletion == [][ ResetCompletes => CleanTable' ]_vars

\* The shuffle variant has left its initialisation when tarot.png has
\* loaded or failed: the first shuffle or createCards has started then.
Initialised == backTexture = "settled"

\* C27, cardMeshes never exceeds four cards.
C27_AtMostFourCards ==
    variant = "shuffle" => Len(cardMeshes) <= numCards

\* C27, an idle table holds four cards in the scene.
C27_IdleTableHasFourCards ==
    (variant = "shuffle" /\ Initialised /\ ~animating) =>
        /\ Len(cardMeshes) = numCards
        /\ \A i \in 1..Len(cardMeshes) : cardMeshes[i].inScene

\* C27, createCards runs on an empty cardMeshes only.
C27_CreateOnEmpty ==
    [][ (variant = "shuffle" /\ Len(cardMeshes') > Len(cardMeshes))
            => cardMeshes = <<>> ]_vars

\* C27: in the shuffle variant cardMeshes never holds more than four cards,
\* holds exactly four cards, all in the scene, whenever animating is false
\* after initialisation, and createCards never adds cards to a cardMeshes
\* that has not been cleared.
C27_FourCardsOnTheTable ==
    /\ [](C27_AtMostFourCards /\ C27_IdleTableHasFourCards)
    /\ C27_CreateOnEmpty

\* C28: when the shuffle sequence has completed, shuffleCards is empty and
\* no placeholder card, kept or discarded, is in the scene, also once the
\* fly-away tweens that were in flight at that moment have finished.
C28_NoPlaceholderLeft ==
    (selection.stage = "placed" /\ selection.kept /= <<>>) =>
        /\ selection.shuffleCards = {}
        /\ selection.inScene = {}

\* C28 witness: the sequence of a pool of 60 has completed with fly-away
\* tweens in flight, and they have all finished since.
C28_Witness ==
    /\ selection.stage = "placed"
    /\ selection.pool = CosmicCards
    /\ Len(selection.kept) = numCardsToKeep
    /\ selection.landedLate
    /\ selection.flying = {}
    /\ selection.inScene = {}

\* C29: revealedCardCount is never negative, and whenever animating is
\* false it is the number of cards whose revealed flag is set.
C29_CounterCountsRevealed ==
    /\ revealedCardCount >= 0
    /\ ~animating => revealedCardCount = Cardinality(Revealed)

\* highlightResetButton gives the button its highlight and the container
\* its class "visible" together; resetTarotReading takes the highlight
\* away when it is accepted and the class "visible" when the flip-backs are
\* done.  With the container visible and no reset under way the button
\* therefore still has the highlight that came with it.
Highlighted == resetVisible /\ NoResetUnderWay

\* C30: the reset button is highlighted, with its container visible, only
\* in states where revealedCardCount = MAX_REVEALED_CARDS.
C30_HighlightOnlyAtThree ==
    Highlighted => revealedCardCount = MAX_REVEALED_CARDS

RevealedIn(st) == { i \in 1..Len(st.cardMeshes) : st.cardMeshes[i].revealed }

\* C31: one physical click, which calls clickHandler from the mouseup
\* listener and from the click listener, reveals at most one card and
\* raises revealedCardCount by at most one.
C31_OneClickOneCard ==
    \A hit \in 0..Len(cardMeshes) :
        LET done == physicalClick(St, hit, TRUE)
        IN  /\ Cardinality(RevealedIn(done) \ Revealed) <= 1
            /\ Revealed \subseteq RevealedIn(done)
            /\ done.revealedCardCount <= revealedCardCount + 1
            /\ done.revealedCardCount >= revealedCardCount
            /\ Len(done.pending) <= Len(pending) + 1

\* C31 witness: a state in which the click, handled twice, reveals a card.
C31_Witness ==
    \E hit \in 1..Len(cardMeshes) :
        LET once == clickHandler(St, hit)
            done == physicalClick(St, hit, TRUE)
        IN  /\ once.revealedCardCount = revealedCardCount + 1
            /\ once.cardMeshes[hit].revealed
            /\ done = once

\* C32: a gesture that moved more than 5 px from its mousedown, or that
\* lasted 300 ms or longer, flips no card.
C32_DragOrLongPressFlipsNothing ==
    (pointer.stage = "gesture" /\ (pointer.movedFar \/ pointer.long)) =>
        pointer.flippedBy = "none"

\* C32, for the mouseup listener alone: it takes no drag and no long press
\* for a click.
C32_MouseUpTakesNoDrag ==
    (pointer.stage = "gesture" /\ (pointer.movedFar \/ pointer.long)) =>
        pointer.flippedBy /= "mouseup"

\* The latest scale target that gsapLikeScale was given for object k.
LatestTarget(k) ==
    LET mine == { j \in 1..Len(pointer.loops) : pointer.loops[j].object = k }
    IN  IF mine = {} THEN (IF pointer.hoveredCard = k THEN "hovered" ELSE "rest")
        ELSE pointer.loops[CHOOSE j \in mine : \A i \in mine : i <= j].target

\* C33, the membership: hoveredCard is null or a card of the current
\* cardMeshes.
C33_HoveredIsACard ==
    pointer.stage = "hover" =>
        pointer.hoveredCard \in 0..Len(cardMeshes)

\* C33, the targets: of the cards whose scale is being changed, only the
\* hovered one has 1.02 as its latest target.
C33_OnlyHoveredIsScaledUp ==
    pointer.stage = "hover" =>
        \A j \in 1..Len(pointer.loops) :
            LET k == pointer.loops[j].object
            IN  LatestTarget(k) = "hovered" => pointer.hoveredCard = k

\* C33: hoveredCard is always null or a member of the current cardMeshes,
\* at most one card, the hovered one, has a pending or reached scale target
\* of 1.02, and the latest scale target of every other card is 1.
C33_HoverFollowsTheCards ==
    C33_HoveredIsACard /\ C33_OnlyHoveredIsScaledUp

\* Violated under Spec: the page of HoverResetInit is one that the shuffle
\* variant reaches.
ReadingNeverDone == ~ReadingDone

\* The cards without the count of their flips, which is no field of the
\* program.
Plain(meshes) == [c \in 1..Len(meshes) |-> [meshes[c] EXCEPT !.flipStarts = 0]]

\* C34: when the content query of a reset fails, animating is false after
\* the catch; the first variant keeps its four cards, the shuffle variant
\* has created four new cards on the table and has started no shuffle.
C34_FailedResetFetchUnblocks ==
    \A r \in DOMAIN resets :
        resets[r].stage = "fetch" =>
            LET done == resetFetchFailed(St, r)
            IN  /\ ~done.animating
                /\ done.resets[r] = IdleReset
                /\ done.tweens = tweens
                /\ done.timers = timers
                /\ done.shuffleCards = shuffleCards
                /\ variant = "entry" =>
                    /\ Len(done.cardMeshes) = numCards
                    /\ Plain(done.cardMeshes) = Plain(cardMeshes)
                /\ variant = "shuffle" =>
                    /\ done.cardMeshes = cardMeshes \o [i \in 1..numCards |-> Card]
                    /\ ~done.isInitialAnimation

\* C34 witness: the shuffle variant waits, busy and with no cards, for the
\* content query of a reset.
C34_Witness ==
    /\ variant = "shuffle"
    /\ animating
    /\ cardMeshes = <<>>
    /\ \E r \in DOMAIN resets : resets[r].stage = "fetch"

\* Violated under Spec: the first variant, too, reaches a state in which
\* its four cards wait for the content query of a reset.
EntryNeverWaitsForContent ==
    ~ (/\ variant = "entry"
       /\ animating
       /\ Len(cardMeshes) = numCards
       /\ \E r \in DOMAIN resets : resets[r].stage = "fetch")

Elements(seq) == { seq[k] : k \in 1..Len(seq) }

\* C35: once loadQueriesFromJson has returned, queries is not empty; when
\* the request failed, the response was not OK or no JSON, or the file
\* held no query, queries is the list of the five defaults and false was
\* returned; and every query that getRandomQuery returns afterwards is an
\* element of queries.
C35_QueriesNeverEmpty ==
    (boot.script = "shuffle" /\ boot.loaded /= "pending") =>
        /\ boot.queryList /= <<>>
        /\ (boot.dataJson.kind /= "object" \/ flat(boot.dataJson.values) = <<>>) =>
            /\ boot.queryList = defaultQueries
            /\ Len(boot.queryList) = 5
            /\ boot.loaded = "false"
        /\ (boot.dataJson.kind = "object" /\ flat(boot.dataJson.values) /= <<>>) =>
            /\ boot.queryList = flat(boot.dataJson.values)
            /\ boot.loaded = "true"
        /\ boot.query /= "none" => boot.query \in Elements(boot.queryList)

\* C35 witness: data.json held categories without a query, the defaults
\* were installed and a query has been drawn from them.
C35_Witness ==
    /\ boot.script = "shuffle"
    /\ boot.dataJson = File("object", << <<>>, <<>> >>)
    /\ boot.loaded = "false"
    /\ boot.query = "design"

\* C36: in the DOM variant a click on a card toggles its flipped class
\* and no other card's, and a second click restores the classes; the
\* click writes the content of no other card, writes its own content only
\* when the card is now flipped, and then writes the image of a block of
\* cards that has a valid image; a click that unflips leaves every content
\* as it is.  No listener ever waits for fetchRandomContent, so no content
\* is written outside a click.
C36_ClickTogglesAndWritesOnFlip ==
    (boot.script = "dom" /\ boot.listeners > 0) =>
        /\ boot.waiting = <<>>
        /\ \A k \in 1..Len(cards) : hasValidImage(cards[k])
        /\ \A card \in 1..DomCards, draw \in 0..(RandomLevels - 1) :
              LET after == cardClicked(boot, cards, card, draw)
              IN  /\ (card \in after.flipped) <=> (card \notin boot.flipped)
                  /\ after.flipped \ {card} = boot.flipped \ {card}
                  /\ \A other \in 1..DomCards \ {card} :
                        after.content[other] = boot.content[other]
                  /\ card \notin after.flipped => after.content = boot.content
                  /\ card \in after.flipped =>
                        \E k \in 1..Len(cards) :
                            /\ hasValidImage(cards[k])
                            /\ after.content[card] = Img(cards[k].url)
                  /\ after.waiting = <<>>
                  /\ \A again \in 0..(RandomLevels - 1) :
                        cardClicked(after, cards, card, again).flipped = boot.flipped

\* C36 witness: the first card is flipped and shows the second block of
\* cards; the second card has been flipped and unflipped and keeps the
\* image of the first block.
C36_Witness ==
    /\ boot.script = "dom"
    /\ boot.listeners > 0
    /\ Len(cards) = 2
    /\ boot.flipped = {1}
    /\ boot.content[1] = Img(cards[2].url)
    /\ boot.content[2] = Img(cards[1].url)

\* C37: a call of fetchSingleCardContent that finds cards non-empty sends
\* no query, leaves cards as it found it and returns one of its blocks;
\* a query is out only for a call that found cards empty, and such a
\* call returns a block of the non-empty list it has stored, which is
\* what passed the filter of the last answer.
C37_CachedCardsAreReused ==
    boot.script = "shuffle" =>
        /\ boot.stage = "single" =>
              /\ boot.cardsAtCall = <<>>
              /\ cards = <<>>
              /\ boot.queries >= 1
        /\ (boot.stage = "single done" /\ boot.settled = "resolved") =>
              /\ cards /= <<>>
              /\ boot.returned \in Elements(cards)
              /\ IF boot.cardsAtCall /= <<>>
                 THEN boot.queries = 0 /\ cards = boot.cardsAtCall
                 ELSE /\ boot.queries >= 1
                      /\ Elements(cards)
                           = Elements(SelectSeq(boot.answer, hasValidImage))
        /\ \A draw \in 0..(RandomLevels - 1) :
              LET call == fetchSingleCardContent(boot, cards, draw)
              IN  /\ call.cards = cards
                  /\ cards /= <<>> =>
                        /\ call.boot.queries = 0
                        /\ call.boot.stage = "single done"
                        /\ call.boot.returned \in Elements(cards)
                  /\ call.boot.stage = "single" => cards = <<>>

\* C37 witness: a second flip has found the two blocks that the first
\* flip stored and has returned the second of them without a query.
C37_Witness ==
    /\ boot.script = "shuffle"
    /\ boot.stage = "single done"
    /\ boot.settled = "resolved"
    /\ Len(boot.cardsAtCall) = 2
    /\ cards = boot.cardsAtCall
    /\ boot.queries = 0
    /\ boot.returned = cards[2]

=============================================================================
